---------------------------- MODULE Spec2Model ----------------------------
(***************************************************************************)
(* Verification model of the vgo-gateway plugin subsystem.                 *)
(*                                                                         *)
(*   - the package installer (internal/plugin/installer.go): the install   *)
(*     directory, InstallFromURL with its eviction of older versions, and  *)
(*     RemovePlugin;                                                       *)
(*   - the sliding-window rate limiter (internal/middleware/ratelimit.go): *)
(*     the in-memory backend, the Redis sorted-set backend, and the        *)
(*     in-memory backend under concurrent request handlers;                *)
(*   - the unit registries (module.Manager and plugin.Manager): register,  *)
(*     unregister, lookup and the lifecycle fan-out over the units;        *)
(*   - the package loader and packager (internal/plugin/loader.go,         *)
(*     internal/plugin/packager.go): Load, Unload, the metadata file.      *)
(*                                                                         *)
(* A filename is a sequence of one-character strings, so that splitting,   *)
(* suffix tests and the version regular expression are computed as the     *)
(* code computes them.                                                     *)
(***************************************************************************)
EXTENDS Integers, Sequences, FiniteSets, TLC

VARIABLES
    tab,        \* the installer's string functions, tabulated once for the strings of the model
    vpks,       \* install directory: filename -> "absent" | "complete" | "partial"
    inst,       \* the last installer call: operation, filename, result, directory before it
    now,        \* the clock, in ticks (TicksPerSec ticks per second)
    limit,      \* MemoryRateLimiter.limit / RedisRateLimiter.limit
    window,     \* the window, in whole seconds
    requests,   \* MemoryRateLimiter.requests: key -> sequence of timestamps (ticks)
    zset,       \* Redis: key -> sorted set, a function member -> score
    expireAt,   \* Redis: key -> tick at which the key's TTL runs out
    last,       \* the last rate-limiter call: operation, arguments, both backends' answers
    hpc,        \* concurrent handlers: position of each handler inside AllowN
    hloc,       \* concurrent handlers: the locals of each handler
    crashed,    \* the Go runtime has aborted on a detected concurrent map access
    registry,   \* which registry is driven: "module" (module.Manager) or "plugin" (plugin.Manager)
    units,      \* Manager.modules / Manager.plugins: name -> unit instance
    initialized,\* plugin.Manager.initialized
    bound,      \* history: name -> the unit the callers have registered and not unregistered
    regOrder,   \* history: the registered names in the order of their registration
    rlast,      \* the last registry call: operation, arguments, the calls it made on the units
                \* (which of them failed, which succeeded), result
    loaded,     \* VKPLoader.loadedPlugins: name -> [Plugin, Path, ExtractDir]; Plugin is the
                \* VKPPlugin object: metadata, execPath, process
    dirs,       \* the extraction directories on disk: directory -> its files
    files,      \* the files a package path can name: path -> archive
    llast,      \* the last loader, plugin or packager call
    api,        \* the last request to the plugin API and its response
    routes,     \* the route groups registered on the gin engine, by plugin name
    mw,         \* rate-limit middleware: the position and response of each client's request
    mu,         \* plugin.Manager.mu: the writer holding it, the readers holding it, the
                \* writers waiting for it
    mpc,        \* the Manager call of each caller and its position
    parse,      \* the filename parsePluginInfo was last called with and what it returned
    srv,        \* the gateway process: its phase, the listener, the shutdown calls made
    inited,     \* history: the plugins whose Initialize has succeeded since the last ShutdownAll
    disk        \* the files the extractions have created, by their cleaned path

vars == <<tab, vpks, inst, now, limit, window, requests, zset, expireAt, last, hpc, hloc, crashed,
          registry, units, initialized, bound, regOrder, rlast, loaded, dirs, files, llast,
          api, routes, mw, mu, mpc, parse, srv, inited, disk>>

instVars == <<tab, vpks, inst>>
limVars  == <<now, limit, window, requests, zset, expireAt, last>>
concVars == <<hpc, hloc, crashed>>
regVars  == <<registry, units, initialized, bound, regOrder, rlast>>
ldVars   == <<loaded, dirs, files, llast>>
apiVars  == <<api, routes>>
mwVars   == <<mw>>
lockVars == <<mu, mpc>>
auxVars  == <<parse, srv, inited, disk>>

(***************************************************************************)
(* Strings. A string is spelled as a sequence of one-character strings     *)
(* wherever the code looks inside it; Str gives the string of a spelling   *)
(* and Chars the spelling of a string of the model.                        *)
(***************************************************************************)
Digits == {"0", "1", "2", "3", "4", "5", "6", "7", "8", "9"}

\* The letters that occur in the model's strings, standing for a-z and A-Z.
Letters == {"a", "b", "c", "h", "k", "m", "p", "r", "t", "v", "x", "y"}

RECURSIVE Str(_)
Str(cs) == IF Len(cs) = 0 THEN "" ELSE cs[1] \o Str(Tail(cs))

\* strings.HasSuffix
HasSuffix(s, suf) ==
    /\ Len(s) >= Len(suf)
    /\ SubSeq(s, Len(s) - Len(suf) + 1, Len(s)) = suf

\* strings.TrimSuffix
TrimSuffix(s, suf) ==
    IF HasSuffix(s, suf) THEN SubSeq(s, 1, Len(s) - Len(suf)) ELSE s

\* Index of the first occurrence of the character c in s, 0 when there is none.
IndexOf(s, c) ==
    IF \E i \in 1..Len(s) : s[i] = c
    THEN CHOOSE i \in 1..Len(s) : s[i] = c /\ \A j \in 1..(i - 1) : s[j] # c
    ELSE 0

\* Index of the last occurrence of the character c in s, 0 when there is none.
LastIndexOf(s, c) ==
    IF \E i \in 1..Len(s) : s[i] = c
    THEN CHOOSE i \in 1..Len(s) : s[i] = c /\ \A j \in (i + 1)..Len(s) : s[j] # c
    ELSE 0

\* strings.Split(s, c) for a one-character separator: always at least one part.
RECURSIVE Split(_, _)
Split(s, c) ==
    LET i == IndexOf(s, c)
    IN  IF i = 0 THEN <<s>>
        ELSE <<SubSeq(s, 1, i - 1)>> \o Split(SubSeq(s, i + 1, Len(s)), c)

\* strings.Join(parts, c)
RECURSIVE Join(_, _)
Join(parts, c) ==
    IF Len(parts) = 0 THEN <<>>
    ELSE IF Len(parts) = 1 THEN parts[1]
    ELSE parts[1] \o <<c>> \o Join(Tail(parts), c)

\* First index >= i of s that holds no digit (Len(s) + 1 when the digits run to the end).
RECURSIVE DigitsEnd(_, _)
DigitsEnd(s, i) ==
    IF i <= Len(s) /\ s[i] \in Digits THEN DigitsEnd(s, i + 1) ELSE i

\* Where a match of v?[0-9]+\.[0-9]+\.[0-9]+ that starts at index i of s ends
\* (the index after its last character), 0 when there is no match at i.
VersionEnd(s, i) ==
    LET s0 == IF i <= Len(s) /\ s[i] = "v" THEN i + 1 ELSE i
        a  == DigitsEnd(s, s0)
        b  == DigitsEnd(s, a + 1)
        c  == DigitsEnd(s, b + 1)
    IN  IF /\ a > s0 /\ a <= Len(s) /\ s[a] = "."
           /\ b > a + 1 /\ b <= Len(s) /\ s[b] = "."
           /\ c > b + 1
        THEN c ELSE 0

\* regexp.MatchString(`^v?[0-9]+\.[0-9]+\.[0-9]+`, part)
MatchVersion(part) == VersionEnd(part, 1) # 0

(***************************************************************************)
(* The filenames and URLs the installer is driven with                     *)
(***************************************************************************)
Ext == <<".", "v", "k", "p">>

V100 == <<"v", "1", ".", "0", ".", "0">>

V101 == <<"v", "1", ".", "0", ".", "1">>

\* The spellings of the filenames: a_x_v1.0.0.vkp, a_x_v1.0.1.vkp,
\* a_x_y_v1.0.1-rc.vkp (a platform with an inner underscore, a version with a suffix),
\* b_x_v1.0.0.vkp, a_v1.0.0.vkp (two parts only), m.vkp,
\* v1.0.0_x_y.vkp (the version is the first part), a_x_v1.0.0.txt (not a package)
Spell_a_x_v100 == <<"a", "_", "x", "_">> \o V100 \o Ext

Spell_a_x_v101 == <<"a", "_", "x", "_">> \o V101 \o Ext

Spell_a_x_y_v101rc == <<"a", "_", "x", "_", "y", "_">> \o V101 \o <<"-", "r", "c">> \o Ext

Spell_b_x_v100 == <<"b", "_", "x", "_">> \o V100 \o Ext

Spell_a_v100 == <<"a", "_">> \o V100 \o Ext

Spell_m == <<"m">> \o Ext

Spell_v100_x_y == V100 \o <<"_", "x", "_", "y">> \o Ext

Spell_txt == <<"a", "_", "x", "_">> \o V100 \o <<".", "t", "x", "t">>

\* The spellings of the URL paths that are not "/" followed by a filename
Spell_nested == <<"/", "p", "/">> \o Spell_a_x_v101

Spell_slash == <<"/">>

Spellings ==
    { Spell_a_x_v100, Spell_a_x_v101, Spell_a_x_y_v101rc, Spell_b_x_v100, Spell_a_v100,
      Spell_m, Spell_v100_x_y, Spell_txt, Spell_nested, Spell_slash, <<>>, <<".">> }
    \cup { <<"/">> \o f : f \in { Spell_a_x_v100, Spell_a_x_v101, Spell_a_x_y_v101rc,
                                 Spell_b_x_v100, Spell_a_v100, Spell_m, Spell_v100_x_y,
                                 Spell_txt } }

SpellingOf == [s \in {Str(cs) : cs \in Spellings} |-> CHOOSE cs \in Spellings : Str(cs) = s]

\* The spelling of a string of the model
Chars(s) == SpellingOf[s]

\* The filenames the install directory may hold
Names ==
    { Str(Spell_a_x_v100), Str(Spell_a_x_v101), Str(Spell_a_x_y_v101rc),
      Str(Spell_b_x_v100), Str(Spell_a_v100), Str(Spell_m), Str(Spell_v100_x_y) }

\* The filenames a URL may carry
AllNames == Names \cup {Str(Spell_txt)}

GoodURL(f) == [scheme |-> "http", host |-> "h", path |-> "/" \o f]

URLs ==
    { GoodURL(f) : f \in AllNames }
    \cup { [scheme |-> "https", host |-> "h", path |-> Str(Spell_nested)],
           [scheme |-> "ftp",   host |-> "h", path |-> "/" \o Str(Spell_a_x_v101)],
           [scheme |-> "http",  host |-> "",  path |-> "/" \o Str(Spell_b_x_v100)],
           [scheme |-> "http",  host |-> "h", path |-> ""],
           [scheme |-> "http",  host |-> "h", path |-> "/"] }

\* What the download can do: succeed; fail before the local file is created (request
\* error or a status other than 200); fail in os.Create; fail in io.Copy, which
\* leaves the created file with part of the body.
DownloadOutcomes == {"ok", "http_error", "create_error", "copy_error"}

(***************************************************************************)
(* The install directory                                                   *)
(***************************************************************************)
EmptyDir == [f \in Names |-> "absent"]

Installed(dir) == {f \in Names : dir[f] # "absent"}

\* Byte value of the characters that occur in the filenames (ASCII).
CharCode(c) ==
    CASE c = "-" -> 45
      [] c = "." -> 46
      [] c = "0" -> 48
      [] c = "1" -> 49
      [] c = "_" -> 95
      [] c = "a" -> 97
      [] c = "b" -> 98
      [] c = "c" -> 99
      [] c = "k" -> 107
      [] c = "m" -> 109
      [] c = "p" -> 112
      [] c = "r" -> 114
      [] c = "t" -> 116
      [] c = "v" -> 118
      [] c = "x" -> 120
      [] c = "y" -> 121

\* s < t in the byte order of Go strings
RECURSIVE LexLess(_, _)
LexLess(s, t) ==
    IF Len(t) = 0 THEN FALSE
    ELSE IF Len(s) = 0 THEN TRUE
    ELSE IF CharCode(s[1]) < CharCode(t[1]) THEN TRUE
    ELSE IF CharCode(s[1]) > CharCode(t[1]) THEN FALSE
    ELSE LexLess(Tail(s), Tail(t))

\* The strings of a set in ascending order (filepath.Glob sorts its matches).
RECURSIVE SortedSeq(_)
SortedSeq(S) ==
    IF S = {} THEN <<>>
    ELSE LET m == CHOOSE x \in S : \A y \in S \ {x} : LexLess(Chars(x), Chars(y))
         IN  <<m>> \o SortedSeq(S \ {m})

\* filepath.Glob(<vpksDir>/*.vkp): the names of the directory that end in .vkp, sorted
GlobVkp == SortedSeq({f \in Names : HasSuffix(Chars(f), Ext)})

\* PluginInstaller.ListInstalledPlugins: the base names matching <vpksDir>/*.vkp
ListInstalledPlugins(dir) ==
    LET listed(f) == dir[f] # "absent"
    IN  SelectSeq(tab.glob, listed)

(***************************************************************************)
(* PluginInstaller: URL and filename handling                              *)
(***************************************************************************)
\* PluginInstaller.validateURL: the error, "" when the URL is accepted
validateURL(u) ==
    IF u.scheme # "http" /\ u.scheme # "https" THEN "bad_scheme"
    ELSE IF u.host = "" THEN "bad_host"
    ELSE ""

\* path with its trailing slashes removed
RECURSIVE StripSlashes(_)
StripSlashes(p) ==
    IF Len(p) > 0 /\ p[Len(p)] = "/" THEN StripSlashes(SubSeq(p, 1, Len(p) - 1)) ELSE p

\* filepath.Base
Base(p) ==
    IF Len(p) = 0 THEN <<".">>
    ELSE LET q == StripSlashes(p)
             i == LastIndexOf(q, "/")
             r == SubSeq(q, i + 1, Len(q))
         IN  IF Len(r) = 0 THEN <<"/">> ELSE r

\* PluginInstaller.extractFilename
extractFilename(u) ==
    LET filename == Str(Base(Chars(u.path)))
    IN  IF filename = "." \/ filename = "/"
        THEN [ok |-> FALSE, filename |-> ""]
        ELSE [ok |-> TRUE, filename |-> filename]

\* s is a non-empty string over the character class cls
AllIn(s, cls) == Len(s) > 0 /\ \A i \in 1..Len(s) : s[i] \in cls

\* The recommended pattern ^[a-zA-Z0-9-]+_[a-zA-Z0-9_]+_v?[0-9]+\.[0-9]+\.[0-9]+.*\.vkp$
\* A match is a choice of the two underscores that end the first and the second group.
MatchesRecommended(cs) ==
    \E i \in 1..Len(cs), j \in 1..Len(cs) :
        /\ i < j
        /\ cs[i] = "_"
        /\ cs[j] = "_"
        /\ AllIn(SubSeq(cs, 1, i - 1), Letters \cup Digits \cup {"-"})
        /\ AllIn(SubSeq(cs, i + 1, j - 1), Letters \cup Digits \cup {"_"})
        /\ LET e == VersionEnd(cs, j + 1)
           IN  e # 0 /\ e + Len(Ext) - 1 <= Len(cs)
        /\ HasSuffix(cs, Ext)

\* PluginInstaller.validatePluginFilename: only a missing .vkp suffix is an error; a
\* name that fails the recommended pattern is logged (warned) and accepted.
validatePluginFilename(filename) ==
    IF ~HasSuffix(Chars(filename), Ext) THEN [err |-> TRUE, warned |-> FALSE]
    ELSE [err |-> FALSE, warned |-> ~MatchesRecommended(Chars(filename))]

NoInfo(kind, filename) ==
    [kind |-> kind, ServiceName |-> "", Platform |-> "", Version |-> "",
     Filename |-> filename]

\* A variant of the version search that stops at the left-most matching part.
VersionIndex_LeftMost(parts) ==
    LET hits == {i \in 1..Len(parts) : MatchVersion(parts[i])}
    IN  IF hits = {} THEN 0 ELSE CHOOSE i \in hits : \A j \in hits : i <= j

\* The loop of parsePluginInfo that walks the parts from the right: the index of the
\* right-most part that matches the version pattern, 0 when none does.
\* Indices are 1-based here: versionIndex 1 is Go's versionIndex 0.
VersionIndex(parts) ==
    LET hits == {i \in 1..Len(parts) : MatchVersion(parts[i])}
    IN  IF hits = {} THEN 0 ELSE CHOOSE i \in hits : \A j \in hits : j <= i

\* PluginInstaller.parsePluginInfo on the spelling of a filename; the fields of the
\* result are spellings. kind is "ok", "error" (the function returns an error) or
\* "panic": with the version in the first part the slice parts[1:versionIndex] has its
\* low bound above its high bound, which aborts the goroutine.
ParseSpelling(cs) ==
    LET name  == TrimSuffix(cs, Ext)
        parts == Split(name, "_")
        versionIndex == VersionIndex(parts)
    IN  IF Len(parts) < 3 THEN [kind |-> "error"]
        ELSE IF versionIndex = 0 THEN [kind |-> "error"]
        ELSE IF versionIndex < 2 THEN [kind |-> "panic"]
        ELSE [kind        |-> "ok",
              ServiceName |-> parts[1],
              Platform    |-> Join(SubSeq(parts, 2, versionIndex - 1), "_"),
              Version     |-> Join(SubSeq(parts, versionIndex, Len(parts)), "_")]

\* PluginInstaller.parsePluginInfo on a string of the model
parsePluginInfo(filename) ==
    LET r == ParseSpelling(Chars(filename))
    IN  IF r.kind # "ok" THEN NoInfo(r.kind, filename)
        ELSE [kind        |-> "ok",
              ServiceName |-> Str(r.ServiceName),
              Platform    |-> Str(r.Platform),
              Version     |-> Str(r.Version),
              Filename    |-> filename]

\* localPath := filepath.Join(i.vpksDir, filename), for a filename that ends in .vkp
LocalPath(f) == [dir |-> "plugins/vpks", stem |-> Str(TrimSuffix(Chars(f), Ext)), ext |-> ".vkp"]

\* The string functions of the installer on the strings of the model. The table is
\* computed when the model starts and every operation below reads it.
Tables ==
    [glob       |-> GlobVkp,
     filename   |-> [u \in URLs |-> extractFilename(u)],
     validation |-> [f \in AllNames |-> validatePluginFilename(f)],
     path       |-> [f \in Names |-> LocalPath(f)],
     info       |-> [f \in AllNames |-> parsePluginInfo(f)]]

\* PluginInstaller.findPluginsByService: the descriptors of the installed files that
\* parse and whose service is serviceName, in directory order; files that do not
\* parse are skipped. panicked: parsePluginInfo aborted on one of the files.
findPluginsByService(dir, serviceName) ==
    LET plugins == ListInstalledPlugins(dir)
        infos   == [i \in 1..Len(plugins) |-> tab.info[plugins[i]]]
        keep(pi) == pi.kind = "ok" /\ pi.ServiceName = serviceName
    IN  [panicked |-> \E i \in 1..Len(plugins) : infos[i].kind = "panic",
         plugins  |-> SelectSeq(infos, keep)]

\* A variant of the eviction loop that spares the files of another platform.
EvictionList_SamePlatform(dir, filename) ==
    LET info == tab.info[filename]
        differs(pi) == pi.Filename # filename /\ pi.Platform = info.Platform
    IN  IF info.kind # "ok" THEN <<>>
        ELSE SelectSeq(findPluginsByService(dir, info.ServiceName).plugins, differs)

\* The files the eviction loop of InstallFromURL removes for a new file, in order:
\* the installed files of the new file's service whose name differs from it.
EvictionList(dir, filename) ==
    LET info == tab.info[filename]
        differs(pi) == pi.Filename # filename
    IN  IF info.kind # "ok" THEN <<>>
        ELSE SelectSeq(findPluginsByService(dir, info.ServiceName).plugins, differs)

\* A variant of the eviction loop that stops one file early.
RemoveFirst_StopsEarly(dir, list, k) ==
    [f \in Names |-> IF \E i \in 1..(k - 1) : list[i].Filename = f THEN "absent" ELSE dir[f]]

\* dir without the first k files of the list
RemoveFirst(dir, list, k) ==
    [f \in Names |-> IF \E i \in 1..k : list[i].Filename = f THEN "absent" ELSE dir[f]]

\* PluginInstaller.downloadFile: the directory after the download of filename
downloadFile(dir, filename, dl) ==
    CASE dl = "ok"           -> [dir EXCEPT ![filename] = "complete"]
      [] dl = "copy_error"   -> [dir EXCEPT ![filename] = "partial"]
      [] dl = "http_error"   -> dir
      [] dl = "create_error" -> dir

\* PluginInstaller.InstallFromURL. failAt = 0: every os.Remove of the eviction loop
\* succeeds; failAt = k: the k-th one fails. dl: what the download does.
\* Gives the result and the directory after the call.
InstallFromURL(dir, u, failAt, dl) ==
    LET fn    == tab.filename[u]
        filename == fn.filename
        info  == tab.info[filename]
        evict == EvictionList(dir, filename)
        swept == RemoveFirst(dir, evict, IF failAt = 0 THEN Len(evict) ELSE failAt - 1)
    IN  IF validateURL(u) # "" THEN
            [result |-> "invalid_url", file |-> "", dir |-> dir, fetched |-> FALSE]
        ELSE IF ~fn.ok THEN
            [result |-> "no_filename", file |-> "", dir |-> dir, fetched |-> FALSE]
        ELSE IF tab.validation[filename].err THEN
            [result |-> "bad_filename", file |-> filename, dir |-> dir, fetched |-> FALSE]
        ELSE IF \/ info.kind = "panic"
                \/ info.kind = "ok" /\ findPluginsByService(dir, info.ServiceName).panicked
        THEN
            [result |-> "panic", file |-> filename, dir |-> dir, fetched |-> FALSE]
        ELSE IF failAt # 0 THEN
            [result |-> "evict_failed", file |-> filename, dir |-> swept, fetched |-> FALSE]
        ELSE IF dl # "ok" THEN
            [result |-> "download_failed", file |-> filename,
             dir |-> downloadFile(swept, filename, dl), fetched |-> TRUE]
        ELSE
            [result |-> "ok", file |-> filename,
             dir |-> downloadFile(swept, filename, dl), fetched |-> TRUE]

\* PluginInstaller.RemovePlugin. ioFail: os.Remove fails.
RemovePlugin(dir, filename, ioFail) ==
    IF dir[filename] = "absent" THEN [result |-> "not_found", dir |-> dir]
    ELSE IF ioFail THEN [result |-> "io_error", dir |-> dir]
    ELSE [result |-> "ok", dir |-> [dir EXCEPT ![filename] = "absent"]]

(***************************************************************************)
(* Rate limiter: bounds and configuration                                  *)
(***************************************************************************)
\* Clock ticks per second: time.Now() is finer than the seconds of time.Now().Unix().
TicksPerSec == 1

\* The clock runs from 0 to MaxTime ticks.
MaxTime == 3

\* The limiter is constructed with a limit in 0..MaxLimit
MaxLimit == 2

\* and a window of 1..MaxWindow whole seconds.
MaxWindow == 2

\* AllowN is called with n in 0..MaxN.
MaxN == 2

Keys == {"k1", "k2"}

\* The window in ticks (time.Duration)
WindowTicks == window * TicksPerSec

\* time.Time.Unix(): whole seconds
Unix(t) == t \div TicksPerSec

\* The function f without the key k
Without(f, k) == [x \in DOMAIN f \ {k} |-> f[x]]

\* The function f with k bound to v (a map assignment)
With(f, k, v) == [x \in DOMAIN f \cup {k} |-> IF x = k THEN v ELSE f[x]]

\* A variant of the append loop that runs once too often.
Copies_OneMore(n, v) == [i \in 1..(n + 1) |-> v]

\* The append loop of AllowN: a sequence of n copies of v
Copies(n, v) == [i \in 1..n |-> v]

(***************************************************************************)
(* MemoryRateLimiter                                                       *)
(***************************************************************************)
\* A variant of After that keeps a request made exactly at windowStart.
After_Inclusive(req, windowStart) == req >= windowStart

\* req.After(windowStart): strictly later
After(req, windowStart) == req > windowStart

\* A variant of MemEvict that never drops a request.
MemEvict_Never(reqs, key, windowStart) == reqs

\* The eviction loop shared by AllowN and GetRemaining: when the key exists, its list
\* is replaced by the requests after windowStart, in order.
MemEvict(reqs, key, windowStart) ==
    IF key \in DOMAIN reqs
    THEN LET valid(req) == After(req, windowStart)
         IN  [reqs EXCEPT ![key] = SelectSeq(@, valid)]
    ELSE reqs

\* len(m.requests[key]): 0 for a missing key
MemLen(reqs, key) == IF key \in DOMAIN reqs THEN Len(reqs[key]) ELSE 0

\* A variant of the limit test that forgets the n requests being asked for.
MemOverLimit_IgnoresN(currentCount, n, lim) == currentCount > lim

\* The limit test of AllowN: the call is refused
MemOverLimit(currentCount, n, lim) == currentCount + n > lim

\* MemoryRateLimiter.AllowN at clock reading t
MemAllowN(reqs, lim, key, n, t) ==
    LET windowStart  == t - WindowTicks
        evicted      == MemEvict(reqs, key, windowStart)
        currentCount == MemLen(evicted, key)
    IN  IF MemOverLimit(currentCount, n, lim)
        THEN [ok |-> FALSE, reqs |-> evicted]
        ELSE [ok |-> TRUE,
              reqs |-> IF n <= 0 THEN evicted
                       ELSE With(evicted, key,
                                 (IF key \in DOMAIN evicted THEN evicted[key] ELSE <<>>)
                                     \o Copies(n, t))]

\* A variant of Reset that clears the whole map.
MemReset_All(reqs, key) == [k \in {} |-> 0]

\* MemoryRateLimiter.Reset
MemReset(reqs, key) == Without(reqs, key)

\* MemoryRateLimiter.GetRemaining at clock reading t
MemGetRemaining(reqs, lim, key, t) ==
    LET windowStart == t - WindowTicks
        evicted     == MemEvict(reqs, key, windowStart)
    IN  IF key \in DOMAIN reqs
        THEN [remaining |-> lim - Len(evicted[key]), reqs |-> evicted]
        ELSE [remaining |-> lim, reqs |-> reqs]

(***************************************************************************)
(* RedisRateLimiter: the sorted set of a key is a function member -> score; *)
(* a member "<now>:<i>" is the pair <<now, i>>.                            *)
(***************************************************************************)
\* The store as a request at tick t finds it: keys whose TTL has run out are gone.
RedisLive(zs, ex, t) == [k \in {x \in DOMAIN zs : ex[x] > t} |-> zs[k]]

\* ZREMRANGEBYSCORE key 0 max on one sorted set: both ends are inclusive
ZRemRangeByScore(z, max) == [m \in {x \in DOMAIN z : ~(0 <= z[x] /\ z[x] <= max)} |-> z[m]]

\* The sorted set of a key, empty for a missing key
ZOf(zs, key) == IF key \in DOMAIN zs THEN zs[key] ELSE << >>

\* ZCARD
ZCard(z) == Cardinality(DOMAIN z)

\* The ZADD loop of the AllowN script: for i = 1..count, ZADD key now "<now>:<i>".
\* ZADD of a member the set already holds only updates its score.
ZAddLoop(z, nowSec, count) ==
    [m \in DOMAIN z \cup {<<nowSec, i>> : i \in 1..count} |->
        IF m \in {<<nowSec, i>> : i \in 1..count} THEN nowSec ELSE z[m]]

\* The store with the sorted set z written back for key: Redis deletes a key whose
\* sorted set has become empty.
ZStore(zs, key, z) == IF DOMAIN z = {} THEN Without(zs, key) ELSE With(zs, key, z)

\* The Lua script of RedisRateLimiter.AllowN at clock reading t (ticks).
\* Gives the answer, the store and the TTLs after the call.
RedisAllowN(zs, ex, lim, key, n, t) ==
    LET nowSec      == Unix(t)
        windowStart == nowSec - window
        live    == RedisLive(zs, ex, t)
        swept   == ZRemRangeByScore(ZOf(live, key), windowStart)
        current == ZCard(swept)
        added   == ZAddLoop(swept, nowSec, n)
        refused == ZStore(live, key, swept)
        stored  == ZStore(live, key, added)
    IN  IF current + n > lim
        THEN [ok |-> FALSE, current |-> current, zs |-> refused,
              ex |-> [k \in DOMAIN refused |-> ex[k]]]
        ELSE [ok |-> TRUE, current |-> current + n, zs |-> stored,
              \* EXPIRE key W: the TTL of the key, when it exists, restarts
              ex |-> [k \in DOMAIN stored |->
                         IF k = key THEN t + window * TicksPerSec ELSE ex[k]]]

\* RedisRateLimiter.Reset: DEL
RedisReset(zs, ex, key) == [zs |-> Without(zs, key), ex |-> Without(ex, key)]

\* RedisRateLimiter.GetRemaining at clock reading t: the script gives limit - ZCARD
\* after the sweep, and the caller raises a negative answer to 0.
RedisGetRemaining(zs, ex, lim, key, t) ==
    LET windowStart == Unix(t) - window
        live      == RedisLive(zs, ex, t)
        swept     == ZRemRangeByScore(ZOf(live, key), windowStart)
        stored    == ZStore(live, key, swept)
        remaining == lim - ZCard(swept)
    IN  [remaining |-> IF remaining < 0 THEN 0 ELSE remaining,
         zs |-> stored, ex |-> [k \in DOMAIN stored |-> ex[k]]]


\* A map with no key
EmptyMap == [k \in {} |-> 0]

(***************************************************************************)
(* The unit registries: module.Manager (modules registered under a name    *)
(* the caller gives) and plugin.Manager (plugins registered under their    *)
(* own GetName()). A registry is a Go map from name to unit instance.      *)
(***************************************************************************)
UnitNames == {"a", "b", "overall_status"}

\* The unit instances; two of them carry the same name.
Instances == {"u1", "u2", "u3", "u4"}

\* The instances registered as modules: under any name
Modules == {"u1", "u2", "u3"}

\* Plugin.GetName
GetName == [u \in Instances |->
               IF u \in {"u1", "u2"} THEN "a" ELSE IF u = "u3" THEN "b" ELSE "overall_status"]

\* The units a registry holds
Range(reg) == {reg[n] : n \in DOMAIN reg}

\* A variant of RegisterModule that overwrites the entry of a name already present.
RegisterModule_Overwrites(reg, name, module) ==
    [err |-> name \in DOMAIN reg, reg |-> With(reg, name, module)]

\* Manager.RegisterModule
RegisterModule(reg, name, module) ==
    IF name \in DOMAIN reg
    THEN [err |-> TRUE, reg |-> reg]
    ELSE [err |-> FALSE, reg |-> With(reg, name, module)]

\* Manager.RegisterPlugin
RegisterPlugin(reg, plugin) ==
    LET name == GetName[plugin]
    IN  IF name \in DOMAIN reg
        THEN [err |-> TRUE, reg |-> reg]
        ELSE [err |-> FALSE, reg |-> With(reg, name, plugin)]

\* Manager.UnregisterModule
UnregisterModule(reg, name) ==
    IF name \notin DOMAIN reg
    THEN [err |-> TRUE, reg |-> reg, shutCalls |-> <<>>]
    ELSE [err |-> FALSE, reg |-> Without(reg, name), shutCalls |-> <<>>]

\* A variant of UnregisterPlugin that shuts the plugin down and forgets the delete.
UnregisterPlugin_KeepsEntry(reg, name) ==
    IF name \notin DOMAIN reg
    THEN [err |-> TRUE, reg |-> reg, shutCalls |-> <<>>]
    ELSE [err |-> FALSE, reg |-> reg, shutCalls |-> <<name>>]

\* Manager.UnregisterPlugin: the plugin is shut down (a failure is only logged) and
\* then removed.
UnregisterPlugin(reg, name) ==
    IF name \notin DOMAIN reg
    THEN [err |-> TRUE, reg |-> reg, shutCalls |-> <<>>]
    ELSE [err |-> FALSE, reg |-> Without(reg, name), shutCalls |-> <<name>>]

\* Manager.GetModule
GetModule(reg, name) ==
    IF name \in DOMAIN reg THEN [unit |-> reg[name], exists |-> TRUE]
    ELSE [unit |-> "nil", exists |-> FALSE]

\* Manager.GetPlugin
GetPlugin(reg, name) ==
    IF name \in DOMAIN reg THEN [unit |-> reg[name], exists |-> TRUE]
    ELSE [unit |-> "nil", exists |-> FALSE]

\* The orders in which `for name, unit := range m` can visit a map: Go leaves the
\* iteration order of a map unspecified and randomizes it.
RangeOrders(reg) ==
    LET n == Cardinality(DOMAIN reg)
    IN  {o \in [1..n -> DOMAIN reg] : \A i \in 1..n, j \in 1..n : o[i] = o[j] => i = j}

\* Index in order of the first unit whose call fails, 0 when none fails.
FirstFailure(reg, order, failing) ==
    IF \E i \in 1..Len(order) : reg[order[i]] \in failing
    THEN CHOOSE i \in 1..Len(order) :
             /\ reg[order[i]] \in failing
             /\ \A j \in 1..(i - 1) : reg[order[j]] \notin failing
    ELSE 0

\* A variant of InitializeAll that goes on after a failure and reports the first one.
ModuleInitializeAll_Continues(reg, order, failing) ==
    LET k == FirstFailure(reg, order, failing)
    IN  [err       |-> k # 0,
         errNames  |-> IF k = 0 THEN <<>> ELSE <<order[k]>>,
         initCalls |-> order,
         succeeded |-> {reg[order[i]] : i \in {j \in 1..Len(order) : reg[order[j]] \notin failing}},
         flag      |-> FALSE]

\* Manager.InitializeAll of module.Manager: the loop returns at the first error.
\* initCalls: the names whose Initialize was called, in order.
ModuleInitializeAll(reg, order, failing) ==
    LET k == FirstFailure(reg, order, failing)
    IN  [err       |-> k # 0,
         errNames  |-> IF k = 0 THEN <<>> ELSE <<order[k]>>,
         initCalls |-> IF k = 0 THEN order ELSE SubSeq(order, 1, k),
         succeeded |-> {reg[order[i]] : i \in 1..(IF k = 0 THEN Len(order) ELSE k - 1)},
         flag      |-> FALSE]

\* Manager.InitializeAll of plugin.Manager: as above; m.initialized is set when every
\* plugin has been initialized.
PluginInitializeAll(reg, order, failing, flag) ==
    LET k == FirstFailure(reg, order, failing)
    IN  [err       |-> k # 0,
         errNames  |-> IF k = 0 THEN <<>> ELSE <<order[k]>>,
         initCalls |-> IF k = 0 THEN order ELSE SubSeq(order, 1, k),
         succeeded |-> {reg[order[i]] : i \in 1..(IF k = 0 THEN Len(order) ELSE k - 1)},
         flag      |-> IF k = 0 THEN TRUE ELSE flag]

\* Manager.ShutdownAll of module.Manager: every module is shut down, the failures are
\* collected, the error joins them.
ModuleShutdownAll(reg, order, failing) ==
    LET failed(n) == reg[n] \in failing
        errors == SelectSeq(order, failed)
    IN  [err       |-> Len(errors) > 0,
         errNames  |-> errors,
         shutCalls |-> order,
         succeeded |-> {reg[order[i]] : i \in {j \in 1..Len(order) : ~failed(order[j])}},
         flag      |-> FALSE]

\* A variant of ShutdownAll that returns at the first failure.
PluginShutdownAll_StopsAtFirst(reg, order, failing, flag) ==
    LET k == FirstFailure(reg, order, failing)
    IN  [err       |-> k # 0,
         errNames  |-> IF k = 0 THEN <<>> ELSE <<order[k]>>,
         shutCalls |-> IF k = 0 THEN order ELSE SubSeq(order, 1, k),
         succeeded |-> {reg[order[i]] : i \in 1..(IF k = 0 THEN Len(order) ELSE k - 1)},
         flag      |-> IF k = 0 THEN FALSE ELSE flag]

\* Manager.ShutdownAll of plugin.Manager: as above; m.initialized is cleared only when
\* no plugin failed.
PluginShutdownAll(reg, order, failing, flag) ==
    LET failed(n) == reg[n] \in failing
        errors == SelectSeq(order, failed)
    IN  [err       |-> Len(errors) > 0,
         errNames  |-> errors,
         shutCalls |-> order,
         succeeded |-> {reg[order[i]] : i \in {j \in 1..Len(order) : ~failed(order[j])}},
         flag      |-> IF Len(errors) > 0 THEN flag ELSE FALSE]

\* What a unit's own health probe gives: the unit and whether it reported an error
Probe(unit, failing) == [unit |-> unit, err |-> unit \in failing]

\* Manager.HealthCheck of module.Manager: health[name] = module.HealthCheck(ctx)
ModuleHealthCheck(reg, order, failing) ==
    [n \in DOMAIN reg |-> Probe(reg[n], failing)]

\* The writes result[key] = value of a loop, applied in order
RECURSIVE Assign(_, _, _)
Assign(result, order, value) ==
    IF Len(order) = 0 THEN result
    ELSE Assign(With(result, order[1], value[order[1]]), Tail(order), value)

\* Manager.HealthCheckAll of plugin.Manager: one entry per plugin, written in the
\* loop, and then result["overall_status"], written after the loop into the same map
\* (a value that is no probe result: the summary string).
PluginHealthCheckAll(reg, order, failing) ==
    LET own == [n \in DOMAIN reg |-> Probe(reg[n], failing)]
        allHealthy == \A n \in DOMAIN reg : reg[n] \notin failing
    IN  With(Assign(EmptyMap, order, own), "overall_status",
             [overall_status |-> IF allHealthy THEN "healthy" ELSE "unhealthy"])

(***************************************************************************)
(* Package metadata and its JSON form. A JSON document is a function from  *)
(* the keys it holds to values tagged with their JSON type.                *)
(***************************************************************************)
JString(v) == [t |-> "string", v |-> v]
JBool(v)   == [t |-> "bool", v |-> v]
JArray(v)  == [t |-> "array", v |-> v]
JObject(n) == [t |-> "object", v |-> n]
JNull      == [t |-> "null", v |-> ""]

\* A Go slice: nil, or its items
NilSlice == [nil |-> TRUE, items |-> <<>>]
Slice(items) == [nil |-> FALSE, items |-> items]

\* The zero PluginMetadata. ConfigSchema is kept by its number of keys (-1: nil).
ZeroMetadata ==
    [Name |-> "", Version |-> "", Description |-> "", Author |-> "", License |-> "",
     Dependencies |-> NilSlice, APIVersion |-> "", MinGatewayVersion |-> "",
     Standalone |-> FALSE, ConfigSchema |-> -1]

\* json.MarshalIndent(metadata): every field under its tag; a nil slice is written as
\* null; config_schema has omitempty and is left out when nil or empty.
Marshal(md) ==
    LET always ==
            [k \in {"name", "version", "description", "author", "license", "dependencies",
                    "api_version", "min_gateway_version", "standalone"} |->
                CASE k = "name" -> JString(md.Name)
                  [] k = "version" -> JString(md.Version)
                  [] k = "description" -> JString(md.Description)
                  [] k = "author" -> JString(md.Author)
                  [] k = "license" -> JString(md.License)
                  [] k = "dependencies" -> IF md.Dependencies.nil THEN JNull
                                           ELSE JArray(md.Dependencies.items)
                  [] k = "api_version" -> JString(md.APIVersion)
                  [] k = "min_gateway_version" -> JString(md.MinGatewayVersion)
                  [] OTHER -> JBool(md.Standalone)]
    IN  IF md.ConfigSchema > 0 THEN With(always, "config_schema", JObject(md.ConfigSchema))
        ELSE always

\* The JSON type json.Unmarshal wants under a key of PluginMetadata
WantedType ==
    [k \in {"name", "version", "description", "author", "license", "api_version",
            "min_gateway_version"} |-> "string"]
    @@ [k \in {"dependencies"} |-> "array"] @@ [k \in {"standalone"} |-> "bool"]
    @@ [k \in {"config_schema"} |-> "object"]

\* A field after json.Unmarshal: absent keys and nulls leave the zero value.
Field(doc, key, zero) ==
    IF key \in DOMAIN doc /\ doc[key].t # "null" THEN doc[key].v ELSE zero

\* json.Unmarshal(data, &metadata) of a document: unknown keys are ignored, a value of
\* another JSON type than the field's is an error.
Unmarshal(doc) ==
    IF \E k \in DOMAIN doc \cap DOMAIN WantedType : doc[k].t \notin {"null", WantedType[k]}
    THEN [ok |-> FALSE, metadata |-> ZeroMetadata]
    ELSE [ok |-> TRUE,
          metadata |->
            [Name |-> Field(doc, "name", ""),
             Version |-> Field(doc, "version", ""),
             Description |-> Field(doc, "description", ""),
             Author |-> Field(doc, "author", ""),
             License |-> Field(doc, "license", ""),
             Dependencies |-> IF "dependencies" \in DOMAIN doc /\ doc["dependencies"].t # "null"
                              THEN Slice(doc["dependencies"].v) ELSE NilSlice,
             APIVersion |-> Field(doc, "api_version", ""),
             MinGatewayVersion |-> Field(doc, "min_gateway_version", ""),
             Standalone |-> Field(doc, "standalone", FALSE),
             ConfigSchema |-> Field(doc, "config_schema", -1)]]

\* The contents of a file: a binary, a JSON document, or text that is no JSON
Binary == [type |-> "binary", doc |-> EmptyMap]
JsonFile(doc) == [type |-> "json", doc |-> doc]
Garbage == [type |-> "garbage", doc |-> EmptyMap]

(***************************************************************************)
(* The packager                                                            *)
(***************************************************************************)
\* A PackageConfig without metadata (config.Metadata == nil)
NilMetadata == [ZeroMetadata EXCEPT !.Name = "<nil>"]

MetaFull ==
    [Name |-> "a", Version |-> "1.0.0", Description |-> "d", Author |-> "x", License |-> "MIT",
     Dependencies |-> Slice(<<"b">>), APIVersion |-> "v2", MinGatewayVersion |-> "1.0.0",
     Standalone |-> TRUE, ConfigSchema |-> 1]

MetaPlain == [ZeroMetadata EXCEPT !.Name = "b", !.Version = "2.0.0", !.Dependencies = Slice(<<>>),
                                  !.ConfigSchema = 0]

\* The metadata a PackageConfig is given
PackagedMetadata == {NilMetadata, MetaFull, MetaPlain}

\* VKPPackager.createMetadataFile: the document written to metadata.json
createMetadataFile(metadata) ==
    LET given == IF metadata = NilMetadata
                 THEN [ZeroMetadata EXCEPT !.Name = "unknown", !.Version = "1.0.0",
                                           !.Description = "VKP Plugin", !.Standalone = TRUE]
                 ELSE metadata
        versioned == IF given.APIVersion = "" THEN [given EXCEPT !.APIVersion = "v1"] ELSE given
    IN  Marshal(versioned)

\* VKPPackager.createVKPPackage: the archive written to OutputPath. The members are
\* the binary as "plugin", the metadata as "metadata.json", and the extra files under
\* their base names.
createVKPPackage(metadata, includeFiles) ==
    LET base == ("plugin" :> Binary) @@ ("metadata.json" :> JsonFile(createMetadataFile(metadata)))
    IN  [n \in DOMAIN base \cup includeFiles |-> IF n \in DOMAIN base THEN base[n] ELSE Garbage]

(***************************************************************************)
(* The loader                                                              *)
(***************************************************************************)
VkpPath(stem) == [dir |-> "vpks", stem |-> stem, ext |-> ".vkp"]

\* PackageConfig.OutputPath
OutputPath == [dir |-> "out", stem |-> "p", ext |-> ".vkp"]

\* The paths LoadPlugin is called with
Paths ==
    {VkpPath("a1"), VkpPath("a2"), VkpPath("empty"), VkpPath("badjson"),
     VkpPath("nobin"), VkpPath("missing"),
     [dir |-> "vpks", stem |-> "readme", ext |-> ".txt"],
     [dir |-> "vpks", stem |-> "lib", ext |-> ".so"],
     OutputPath}

HandMade(doc) == ("plugin" :> Binary) @@ ("plugin.json" :> JsonFile(doc))

\* The files on disk at the start: hand-made packages, and two files that are none.
InitialFiles ==
    (VkpPath("a1") :> HandMade(Marshal(MetaFull) @@ ("homepage" :> JString("h"))))
    @@ (VkpPath("a2") :> HandMade(("name" :> JString("a")) @@ ("version" :> JString("1.0.1"))))
    @@ (VkpPath("empty") :> HandMade(EmptyMap))
    @@ (VkpPath("badjson") :> (("plugin" :> Binary) @@ ("plugin.json" :> Garbage)))
    @@ (VkpPath("nobin") :> (("plugin.json" :> JsonFile(Marshal(MetaPlain)))))
    @@ ([dir |-> "vpks", stem |-> "readme", ext |-> ".txt"] :> ("text" :> Garbage))
    @@ ([dir |-> "vpks", stem |-> "lib", ext |-> ".so"] :> ("text" :> Garbage))

\* What the disk does during a load
DiskOutcomes == {"ok", "mkdir_error", "extract_error"}

\* The names UnloadPlugin is called with
LoaderNames == {"a", "b", ""}

\* PackageConfig.IncludeFiles, by base name
IncludeFileSets == {{"README.md"}}

\* The number of extraction directories the disk holds at a time
MaxDirs == 2

\* filepath.Base(path)
PathBase(path) == path.stem \o path.ext

\* filepath.Ext(path)
PathExt(path) == path.ext

\* extractDir := filepath.Join(l.pluginDir, "temp", filepath.Base(path)+"_extracted")
ExtractDirOf(path) == "plugins/temp/" \o PathBase(path) \o "_extracted"

\* VKPLoader.extractVKP: every regular file of the archive is created in the
\* directory, over a file of the same name.
extractVKP(archive, dirFiles) == archive @@ dirFiles

\* VKPLoader.readPluginMetadata: plugin.json is read and parsed.
readPluginMetadata(dirFiles) ==
    IF "plugin.json" \notin DOMAIN dirFiles THEN [ok |-> FALSE, metadata |-> ZeroMetadata]
    ELSE IF dirFiles["plugin.json"].type # "json" THEN [ok |-> FALSE, metadata |-> ZeroMetadata]
    ELSE Unmarshal(dirFiles["plugin.json"].doc)

\* VKPPlugin.GetName
VKPGetName(obj) == obj.metadata.Name

\* The files of a directory, none when it does not exist
DirFiles(ds, dir) == IF dir \in DOMAIN ds THEN ds[dir] ELSE EmptyMap

\* The result of a load that failed with e and left the directories d
LoadFailed(e, ld, d) ==
    [err |-> e, named |-> FALSE, name |-> "", loaded |-> ld, dirs |-> d]

\* VKPLoader.loadVKPPlugin. io: what the disk does ("ok", "mkdir_error",
\* "extract_error"). The result carries the loader's map and the directories after
\* the call.
loadVKPPlugin(ld, ds, fs, path, io) ==
    LET extractDir == ExtractDirOf(path)
        made       == With(ds, extractDir, DirFiles(ds, extractDir))
        extracted  == With(ds, extractDir, extractVKP(fs[path], DirFiles(ds, extractDir)))
        md         == readPluginMetadata(extracted[extractDir])
        obj        == [metadata |-> md.metadata, execPath |-> extractDir \o "/plugin",
                       proc |-> "none", leaked |-> FALSE]
        name       == VKPGetName(obj)
    IN  IF io = "mkdir_error" THEN LoadFailed("mkdir", ld, ds)
        ELSE IF io = "extract_error" THEN LoadFailed("extract", ld, made)
        ELSE IF ~md.ok THEN LoadFailed("metadata", ld, extracted)
        ELSE IF "plugin" \notin DOMAIN extracted[extractDir]
             THEN LoadFailed("chmod", ld, extracted)
        ELSE [err |-> "", named |-> TRUE, name |-> name,
              loaded |-> With(ld, name, [Plugin |-> obj, Path |-> path,
                                         ExtractDir |-> extractDir]),
              dirs |-> extracted]

\* VKPLoader.loadGoPlugin: plugin.Open of a file that is no Go plugin fails.
loadGoPlugin(ld, ds, fs, path) == LoadFailed("open", ld, ds)

\* VKPLoader.LoadPlugin
LoadPlugin(ld, ds, fs, path, io) ==
    IF path \notin DOMAIN fs THEN LoadFailed("not_found", ld, ds)
    ELSE IF PathExt(path) = ".vkp" THEN loadVKPPlugin(ld, ds, fs, path, io)
    ELSE IF PathExt(path) = ".so" THEN loadGoPlugin(ld, ds, fs, path)
    ELSE LoadFailed("unsupported", ld, ds)

\* The process of a VKPPlugin: proc is "none" (cmd or cmd.Process is nil), "running",
\* "killed" (Kill was delivered) or "exited" (the child ended by itself). Nothing
\* waits for a child, so the handle of a child that ended stays in cmd.Process.
\* leaked: an Initialize replaced the handle of a child that was still running.
Alive(obj) == obj.proc = "running"

\* A variant of stop that sends no signal.
stop_NoKill(obj, killFails) == [err |-> FALSE, obj |-> obj]

\* VKPPlugin.stop: the process of the last Initialize, if one was started, is killed;
\* Kill can fail.
stop(obj, killFails) ==
    IF obj.proc = "none" THEN [err |-> FALSE, obj |-> obj]
    ELSE IF killFails THEN [err |-> TRUE, obj |-> obj]
    ELSE [err |-> FALSE,
          obj |-> IF Alive(obj) THEN [obj EXCEPT !.proc = "killed"] ELSE obj]

\* An Initialize that keeps the old command when Start fails
VKPInitialize_KeepsHandle(obj, startFails) ==
    IF startFails THEN [err |-> TRUE, obj |-> obj]
    ELSE [err |-> FALSE, obj |-> [obj EXCEPT !.proc = "running",
                                             !.leaked = obj.leaked \/ Alive(obj)]]

\* VKPPlugin.Initialize: a new command replaces the old one and is started; when
\* Start fails the new command has no process.
VKPInitialize(obj, startFails) ==
    [err |-> startFails,
     obj |-> [obj EXCEPT !.proc = IF startFails THEN "none" ELSE "running",
                         !.leaked = obj.leaked \/ Alive(obj)]]

\* A Shutdown that signals nothing
VKPShutdown_NoKill(obj, killFails) == [err |-> FALSE, obj |-> obj]

\* VKPPlugin.Shutdown
VKPShutdown(obj, killFails) == stop(obj, killFails)

\* VKPPlugin.Health: "stopped" without a process; otherwise signal 0 is sent to the
\* process. probeFails: the signal returns an error; the signal reaches a running
\* child, and a child that ended and was not waited for may still take it.
VKPHealth(obj, probeFails) ==
    IF obj.proc = "none" THEN [status |-> "stopped", err |-> FALSE, pid |-> FALSE]
    ELSE IF probeFails /\ ~Alive(obj) THEN [status |-> "unhealthy", err |-> TRUE, pid |-> FALSE]
    ELSE [status |-> "healthy", err |-> FALSE, pid |-> TRUE]

\* UnloadPlugin without the removal of the extraction directory
UnloadPlugin_KeepsDir(ld, ds, name, killFails, removeFails) ==
    IF name \notin DOMAIN ld
    THEN [err |-> "not_loaded", loaded |-> ld, dirs |-> ds, proc |-> "none",
          killErr |-> FALSE]
    ELSE [err |-> "", loaded |-> Without(ld, name), dirs |-> ds,
          proc |-> stop(ld[name].Plugin, killFails).obj.proc,
          killErr |-> stop(ld[name].Plugin, killFails).err]

\* VKPLoader.UnloadPlugin: the plugin is stopped, the extraction directory removed
\* (both failures are only logged) and the entry deleted. proc: the process of the
\* plugin after the call; killErr: the kill was tried and failed.
UnloadPlugin(ld, ds, name, killFails, removeFails) ==
    IF name \notin DOMAIN ld
    THEN [err |-> "not_loaded", loaded |-> ld, dirs |-> ds, proc |-> "none",
          killErr |-> FALSE]
    ELSE LET lp == ld[name]
         IN  [err |-> "",
              loaded |-> Without(ld, name),
              proc |-> stop(lp.Plugin, killFails).obj.proc,
              killErr |-> stop(lp.Plugin, killFails).err,
              dirs |-> IF lp.ExtractDir # "" /\ ~removeFails
                       THEN Without(ds, lp.ExtractDir) ELSE ds]

\* The entry of a name in the loader's map, NoEntry when there is none
NoEntry == [Plugin |-> [metadata |-> ZeroMetadata, execPath |-> "", proc |-> "none",
                        leaked |-> FALSE],
            Path |-> [dir |-> "", stem |-> "", ext |-> ""], ExtractDir |-> ""]

EntryOf(ld, name) == IF name \in DOMAIN ld THEN ld[name] ELSE NoEntry

(***************************************************************************)
(* Initial values                                                          *)
(***************************************************************************)
\* onlyOk: every installer call so far was an InstallFromURL that succeeded
\* url: the URL of an install; fetched: the call has issued its HTTP request
NoURL == [scheme |-> "", host |-> "", path |-> ""]

NoInstall ==
    [op |-> "none", file |-> "", result |-> "", pre |-> EmptyDir, onlyOk |-> TRUE,
     url |-> NoURL, fetched |-> FALSE]

NoCall ==
    [op |-> "none", key |-> "", n |-> 0, memOk |-> FALSE, redisOk |-> FALSE,
     memRem |-> 0, redisRem |-> 0, pre |-> EmptyMap, preZ |-> EmptyMap]

\* Concurrent request handlers of the in-memory limiter
NumHandlers == 2

Handlers == 1..NumHandlers

NoLocals == [key |-> "", n |-> 0, now |-> 0, snap |-> <<>>, i |-> 0, ok |-> FALSE, rem |-> 0]

NoRegistryCall ==
    [op |-> "none", name |-> "", unit |-> "", err |-> FALSE, errNames |-> <<>>,
     order |-> <<>>, initCalls |-> <<>>, shutCalls |-> <<>>, failing |-> {},
     health |-> EmptyMap, succeeded |-> {}, pre |-> EmptyMap]

NoLoaderCall ==
    [op |-> "none", path |-> [dir |-> "", stem |-> "", ext |-> ""], name |-> "", err |-> "",
     named |-> FALSE, had |-> FALSE, old |-> NoEntry, removeFails |-> FALSE,
     metadata |-> ZeroMetadata, status |-> "", killFails |-> FALSE, proc |-> "none",
     same |-> TRUE]

\* The last request to the plugin API: none yet
\* was: the state of the named file before the request; regSame, ldSame: the request
\* left Manager.plugins, the loader's map as they were
NoRequest ==
    [op |-> "none", filename |-> "", autoLoad |-> FALSE, status |-> 0, result |-> "",
     name |-> "", was |-> "absent", regSame |-> TRUE, ldSame |-> TRUE]

\* Concurrent requests passing the rate-limit middleware
NumClients == 2

Clients == 1..NumClients

\* A request that has not reached the middleware. header: the value of
\* X-RateLimit-Remaining, -1 when the header is not set.
MwIdle ==
    [pc |-> "idle", key |-> "", allowed |-> FALSE, err |-> FALSE, status |-> 0,
     header |-> -1, aborted |-> FALSE, next |-> FALSE]

\* Concurrent callers of the plugin Manager
NumCallers == 2

Callers == 1..NumCallers

\* Manager.mu, unlocked. writer: the caller holding the write lock, 0 for none;
\* readers: the callers holding a read lock; loader: the caller holding VKPLoader.mu.
Unlocked == [writer |-> 0, readers |-> {}, loader |-> 0]

\* pc: "idle", "wait" (blocked in Lock or RLock) or "run" (holding the lock, at the
\* step of the call that stage counts)
CallerIdle == [op |-> "none", pc |-> "idle", stage |-> 0]

\* parsePluginInfo has not been called
NoParse == [parts |-> <<>>, info |-> [kind |-> "none"]]

\* The gateway process before runServer; calls: the shutdown calls made so far
NoServer == [phase |-> "none", accepting |-> FALSE, calls |-> <<>>, served |-> 0]

\* NewPluginInstaller: the install directory is created empty. The limiter and the
\* handlers are not part of this specification and stay as they are.
InstallerInit ==
    /\ tab = Tables
    /\ vpks = EmptyDir
    /\ inst = NoInstall
    /\ now = 0
    /\ limit = 0
    /\ window = 1
    /\ requests = EmptyMap
    /\ zset = EmptyMap
    /\ expireAt = EmptyMap
    /\ last = NoCall
    /\ hpc = [h \in Handlers |-> "idle"]
    /\ hloc = [h \in Handlers |-> NoLocals]
    /\ crashed = FALSE
    /\ registry = "module"
    /\ units = EmptyMap
    /\ initialized = FALSE
    /\ bound = EmptyMap
    /\ regOrder = <<>>
    /\ rlast = NoRegistryCall
    /\ loaded = EmptyMap
    /\ dirs = EmptyMap
    /\ files = EmptyMap
    /\ llast = NoLoaderCall
    /\ api = NoRequest
    /\ routes = {}
    /\ mw = [c \in Clients |-> MwIdle]
    /\ mu = Unlocked
    /\ mpc = [t \in Callers |-> CallerIdle]
    /\ parse = NoParse
    /\ srv = NoServer
    /\ inited = {}
    /\ disk = {}

\* NewMemoryRateLimiter / NewRedisRateLimiter: empty maps, an empty store
LimiterInit ==
    /\ now = 0
    /\ limit \in 0..MaxLimit
    /\ window \in 1..MaxWindow
    /\ requests = EmptyMap
    /\ zset = EmptyMap
    /\ expireAt = EmptyMap
    /\ last = NoCall
    /\ tab = Tables
    /\ vpks = EmptyDir
    /\ inst = NoInstall
    /\ hpc = [h \in Handlers |-> "idle"]
    /\ hloc = [h \in Handlers |-> NoLocals]
    /\ crashed = FALSE
    /\ registry = "module"
    /\ units = EmptyMap
    /\ initialized = FALSE
    /\ bound = EmptyMap
    /\ regOrder = <<>>
    /\ rlast = NoRegistryCall
    /\ loaded = EmptyMap
    /\ dirs = EmptyMap
    /\ files = EmptyMap
    /\ llast = NoLoaderCall
    /\ api = NoRequest
    /\ routes = {}
    /\ mw = [c \in Clients |-> MwIdle]
    /\ mu = Unlocked
    /\ mpc = [t \in Callers |-> CallerIdle]
    /\ parse = NoParse
    /\ srv = NoServer
    /\ inited = {}
    /\ disk = {}

(***************************************************************************)
(* Installer operations. Manager.InstallPluginFromURL,                     *)
(* Manager.InstallAndLoadPluginFromURL and Manager.RemoveInstalledPlugin   *)
(* hold the Manager's mutex for the whole call, so the calls are serial.   *)
(***************************************************************************)
Install ==
    \E u \in URLs, dl \in DownloadOutcomes :
        \E failAt \in 0..(IF tab.filename[u].ok THEN Len(EvictionList(vpks, tab.filename[u].filename))
                           ELSE 0) :
            LET r == InstallFromURL(vpks, u, failAt, dl)
            IN  /\ vpks' = r.dir
                /\ inst' = [op |-> "install", file |-> r.file, result |-> r.result,
                            pre |-> vpks, onlyOk |-> inst.onlyOk /\ r.result = "ok",
                            url |-> u, fetched |-> r.fetched]
                /\ UNCHANGED <<tab, limVars, concVars, regVars, ldVars, apiVars, mwVars, lockVars, auxVars>>

Remove ==
    \E filename \in Names, ioFail \in BOOLEAN :
        LET r == RemovePlugin(vpks, filename, ioFail)
        IN  /\ vpks' = r.dir
            /\ inst' = [op |-> "remove", file |-> filename, result |-> r.result,
                        pre |-> vpks, onlyOk |-> FALSE,
                        url |-> NoURL, fetched |-> FALSE]
            /\ UNCHANGED <<tab, limVars, concVars, regVars, ldVars, apiVars, mwVars, lockVars, auxVars>>

InstallerNext == Install \/ Remove

SpecInstaller == InstallerInit /\ [][InstallerNext]_vars

(***************************************************************************)
(* Rate limiter operations, one call at a time; every call is made on both *)
(* backends at the same clock reading.                                     *)
(***************************************************************************)
Tick ==
    /\ now < MaxTime
    /\ now' = now + 1
    /\ last' = NoCall
    /\ UNCHANGED <<limit, window, requests, zset, expireAt, instVars, concVars, regVars, ldVars, apiVars, mwVars, lockVars, auxVars>>

\* MemoryRateLimiter.Allow / RedisRateLimiter.Allow: AllowN with n = 1
Allow ==
    \E key \in Keys :
        LET m == MemAllowN(requests, limit, key, 1, now)
            r == RedisAllowN(zset, expireAt, limit, key, 1, now)
        IN  /\ requests' = m.reqs
            /\ zset' = r.zs
            /\ expireAt' = r.ex
            /\ last' = [op |-> "Allow", key |-> key, n |-> 1,
                        memOk |-> m.ok, redisOk |-> r.ok, memRem |-> 0, redisRem |-> 0,
                        pre |-> requests, preZ |-> zset]
            /\ UNCHANGED <<now, limit, window, instVars, concVars, regVars, ldVars, apiVars, mwVars, lockVars, auxVars>>

AllowN ==
    \E key \in Keys, n \in 0..MaxN :
        LET m == MemAllowN(requests, limit, key, n, now)
            r == RedisAllowN(zset, expireAt, limit, key, n, now)
        IN  /\ requests' = m.reqs
            /\ zset' = r.zs
            /\ expireAt' = r.ex
            /\ last' = [op |-> "AllowN", key |-> key, n |-> n,
                        memOk |-> m.ok, redisOk |-> r.ok, memRem |-> 0, redisRem |-> 0,
                        pre |-> requests, preZ |-> zset]
            /\ UNCHANGED <<now, limit, window, instVars, concVars, regVars, ldVars, apiVars, mwVars, lockVars, auxVars>>

GetRemaining ==
    \E key \in Keys :
        LET m == MemGetRemaining(requests, limit, key, now)
            r == RedisGetRemaining(zset, expireAt, limit, key, now)
        IN  /\ requests' = m.reqs
            /\ zset' = r.zs
            /\ expireAt' = r.ex
            /\ last' = [op |-> "GetRemaining", key |-> key, n |-> 0,
                        memOk |-> FALSE, redisOk |-> FALSE,
                        memRem |-> m.remaining, redisRem |-> r.remaining,
                        pre |-> requests, preZ |-> zset]
            /\ UNCHANGED <<now, limit, window, instVars, concVars, regVars, ldVars, apiVars, mwVars, lockVars, auxVars>>

Reset ==
    \E key \in Keys :
        LET r == RedisReset(zset, expireAt, key)
        IN  /\ requests' = MemReset(requests, key)
            /\ zset' = r.zs
            /\ expireAt' = r.ex
            /\ last' = [op |-> "Reset", key |-> key, n |-> 0,
                        memOk |-> FALSE, redisOk |-> FALSE, memRem |-> 0, redisRem |-> 0,
                        pre |-> requests, preZ |-> zset]
            /\ UNCHANGED <<now, limit, window, instVars, concVars, regVars, ldVars, apiVars, mwVars, lockVars, auxVars>>

LimiterNext == Tick \/ Allow \/ AllowN \/ GetRemaining \/ Reset

SpecLimiter == LimiterInit /\ [][LimiterNext]_vars


(***************************************************************************)
(* The in-memory limiter under concurrent request handlers.                *)
(* MemoryRateLimiter has no lock: RateLimitMiddleware runs in every        *)
(* request goroutine and calls Allow on the shared limiter, so the reads   *)
(* and writes of m.requests inside AllowN interleave. Each handler makes   *)
(* one AllowN call and then one GetRemaining call, as the middleware does; *)
(* the clock does not move, so that all calls fall into one window. An     *)
(* unsynchronized map access is a data race: besides every interleaving of *)
(* the reads and writes, the Go runtime may abort the process              *)
(* ("concurrent map writes").                                              *)
(***************************************************************************)
ConcurrentInit ==
    /\ now = 0
    /\ limit \in 1..MaxLimit
    /\ window = 1
    /\ requests = EmptyMap
    /\ zset = EmptyMap
    /\ expireAt = EmptyMap
    /\ last = NoCall
    /\ tab = Tables
    /\ vpks = EmptyDir
    /\ inst = NoInstall
    /\ hpc = [h \in Handlers |-> "idle"]
    /\ hloc = [h \in Handlers |-> NoLocals]
    /\ crashed = FALSE
    /\ registry = "module"
    /\ units = EmptyMap
    /\ initialized = FALSE
    /\ bound = EmptyMap
    /\ regOrder = <<>>
    /\ rlast = NoRegistryCall
    /\ loaded = EmptyMap
    /\ dirs = EmptyMap
    /\ files = EmptyMap
    /\ llast = NoLoaderCall
    /\ api = NoRequest
    /\ routes = {}
    /\ mw = [c \in Clients |-> MwIdle]
    /\ mu = Unlocked
    /\ mpc = [t \in Callers |-> CallerIdle]
    /\ parse = NoParse
    /\ srv = NoServer
    /\ inited = {}
    /\ disk = {}

ConcFrame ==
    UNCHANGED <<now, limit, window, zset, expireAt, last, instVars, crashed, regVars, ldVars, apiVars, mwVars, lockVars, auxVars>>

\* AllowN is entered: now := time.Now()
HEnter(h) ==
    /\ ~crashed
    /\ hpc[h] = "idle"
    /\ \E key \in Keys, n \in 1..MaxN :
          hloc' = [hloc EXCEPT ![h] = [NoLocals EXCEPT !.key = key, !.n = n, !.now = now]]
    /\ hpc' = [hpc EXCEPT ![h] = "evict_read"]
    /\ UNCHANGED requests
    /\ ConcFrame

\* requests, exists := m.requests[key]
HEvictRead(h) ==
    /\ ~crashed
    /\ hpc[h] = "evict_read"
    /\ IF hloc[h].key \in DOMAIN requests
       THEN /\ hloc' = [hloc EXCEPT ![h].snap = requests[hloc[h].key]]
            /\ hpc' = [hpc EXCEPT ![h] = "evict_write"]
       ELSE /\ hloc' = hloc
            /\ hpc' = [hpc EXCEPT ![h] = "check"]
    /\ UNCHANGED requests
    /\ ConcFrame

\* m.requests[key] = validRequests, computed from the list read before
HEvictWrite(h) ==
    /\ ~crashed
    /\ hpc[h] = "evict_write"
    /\ LET windowStart == hloc[h].now - WindowTicks
           valid(req) == After(req, windowStart)
       IN  requests' = With(requests, hloc[h].key, SelectSeq(hloc[h].snap, valid))
    /\ hpc' = [hpc EXCEPT ![h] = "check"]
    /\ UNCHANGED hloc
    /\ ConcFrame

\* currentCount := len(m.requests[key]) and the limit test
HCheck(h) ==
    /\ ~crashed
    /\ hpc[h] = "check"
    /\ IF MemOverLimit(MemLen(requests, hloc[h].key), hloc[h].n, limit)
       THEN /\ hloc' = [hloc EXCEPT ![h].ok = FALSE]
            /\ hpc' = [hpc EXCEPT ![h] = "done"]
       ELSE /\ hloc' = [hloc EXCEPT ![h].i = 0]
            /\ hpc' = [hpc EXCEPT ![h] = "append_read"]
    /\ UNCHANGED requests
    /\ ConcFrame

\* the read of m.requests[key] in m.requests[key] = append(m.requests[key], now)
HAppendRead(h) ==
    /\ ~crashed
    /\ hpc[h] = "append_read"
    /\ hloc' = [hloc EXCEPT ![h].snap = IF hloc[h].key \in DOMAIN requests
                                       THEN requests[hloc[h].key] ELSE <<>>]
    /\ hpc' = [hpc EXCEPT ![h] = "append_write"]
    /\ UNCHANGED requests
    /\ ConcFrame

\* the write of the appended list; after the n-th one AllowN returns true
HAppendWrite(h) ==
    /\ ~crashed
    /\ hpc[h] = "append_write"
    /\ requests' = With(requests, hloc[h].key, Append(hloc[h].snap, hloc[h].now))
    /\ IF hloc[h].i + 1 < hloc[h].n
       THEN /\ hloc' = [hloc EXCEPT ![h].i = @ + 1]
            /\ hpc' = [hpc EXCEPT ![h] = "append_read"]
       ELSE /\ hloc' = [hloc EXCEPT ![h].i = @ + 1, ![h].ok = TRUE]
            /\ hpc' = [hpc EXCEPT ![h] = "done"]
    /\ ConcFrame

\* RateLimitMiddleware: once Allow has returned, the handler asks GetRemaining for the
\* X-RateLimit-Remaining header. The call is taken in one step.
HGetRemaining(h) ==
    /\ ~crashed
    /\ hpc[h] = "done"
    /\ LET m == MemGetRemaining(requests, limit, hloc[h].key, now)
       IN  /\ requests' = m.reqs
           /\ hloc' = [hloc EXCEPT ![h].rem = m.remaining]
    /\ hpc' = [hpc EXCEPT ![h] = "reported"]
    /\ ConcFrame

InAllowN(h) == hpc[h] \notin {"idle", "done", "reported"}

\* The runtime detects two goroutines inside the map and aborts the process.
RuntimeAbort ==
    /\ ~crashed
    /\ \E g \in Handlers, h \in Handlers : g # h /\ InAllowN(g) /\ InAllowN(h)
    /\ crashed' = TRUE
    /\ UNCHANGED <<now, limit, window, requests, zset, expireAt, last, instVars, hpc, hloc,
                   regVars, ldVars, apiVars, mwVars, lockVars, auxVars>>

ConcurrentNext ==
    \/ \E h \in Handlers : HEnter(h)
    \/ \E h \in Handlers : HEvictRead(h)
    \/ \E h \in Handlers : HEvictWrite(h)
    \/ \E h \in Handlers : HCheck(h)
    \/ \E h \in Handlers : HAppendRead(h)
    \/ \E h \in Handlers : HAppendWrite(h)
    \/ \E h \in Handlers : HGetRemaining(h)
    \/ RuntimeAbort

SpecLimiterConcurrent == ConcurrentInit /\ [][ConcurrentNext]_vars


(***************************************************************************)
(* Registry operations. Every method takes the Manager's lock, so the      *)
(* calls are serial. One of the two registries is driven in a behaviour;   *)
(* the units' own Initialize, Shutdown and health probes may fail.         *)
(***************************************************************************)
RegistryInit ==
    /\ registry \in {"module", "plugin"}
    /\ units = EmptyMap
    /\ initialized = FALSE
    /\ bound = EmptyMap
    /\ regOrder = <<>>
    /\ rlast = NoRegistryCall
    /\ tab = Tables
    /\ vpks = EmptyDir
    /\ inst = NoInstall
    /\ now = 0
    /\ limit = 0
    /\ window = 1
    /\ requests = EmptyMap
    /\ zset = EmptyMap
    /\ expireAt = EmptyMap
    /\ last = NoCall
    /\ hpc = [h \in Handlers |-> "idle"]
    /\ hloc = [h \in Handlers |-> NoLocals]
    /\ crashed = FALSE
    /\ loaded = EmptyMap
    /\ dirs = EmptyMap
    /\ files = EmptyMap
    /\ llast = NoLoaderCall
    /\ api = NoRequest
    /\ routes = {}
    /\ mw = [c \in Clients |-> MwIdle]
    /\ mu = Unlocked
    /\ mpc = [t \in Callers |-> CallerIdle]
    /\ parse = NoParse
    /\ srv = NoServer
    /\ inited = {}
    /\ disk = {}

RegFrame == UNCHANGED <<registry, instVars, limVars, concVars, ldVars, apiVars, mwVars, lockVars, auxVars>>

\* RegisterModule(name, module) / RegisterPlugin(plugin)
RegisterUnit ==
    \E name \in UnitNames, u \in Instances :
        /\ registry = "plugin" => name = GetName[u]
        /\ registry = "module" => u \in Modules
        /\ LET r == IF registry = "module" THEN RegisterModule(units, name, u)
                    ELSE RegisterPlugin(units, u)
           IN  /\ units' = r.reg
               /\ bound' = IF r.err THEN bound ELSE With(bound, name, u)
               /\ regOrder' = IF r.err THEN regOrder ELSE Append(regOrder, name)
               /\ rlast' = [NoRegistryCall EXCEPT !.op = "Register", !.name = name, !.unit = u,
                                                  !.err = r.err, !.pre = units]
        /\ UNCHANGED initialized
        /\ RegFrame

\* UnregisterModule(name) / UnregisterPlugin(name)
UnregisterUnit ==
    \E name \in UnitNames, shutdownFails \in BOOLEAN :
        /\ shutdownFails => (registry = "plugin" /\ name \in DOMAIN units)
        /\ LET r == IF registry = "module" THEN UnregisterModule(units, name)
                    ELSE UnregisterPlugin(units, name)
               differs(n) == n # name
           IN  /\ units' = r.reg
               /\ bound' = IF r.err THEN bound ELSE Without(bound, name)
               /\ regOrder' = IF r.err THEN regOrder ELSE SelectSeq(regOrder, differs)
               /\ rlast' = [NoRegistryCall EXCEPT !.op = "Unregister", !.name = name,
                                                  !.err = r.err, !.shutCalls = r.shutCalls,
                                                  !.failing = IF shutdownFails
                                                              THEN {units[name]} ELSE {},
                                                  !.pre = units]
        /\ UNCHANGED initialized
        /\ RegFrame

InitializeAllUnits ==
    \E order \in RangeOrders(units), failing \in SUBSET Range(units) :
        LET r == IF registry = "module" THEN ModuleInitializeAll(units, order, failing)
                 ELSE PluginInitializeAll(units, order, failing, initialized)
        IN  /\ initialized' = r.flag
            /\ rlast' = [NoRegistryCall EXCEPT !.op = "InitializeAll", !.err = r.err,
                                               !.errNames = r.errNames, !.order = order,
                                               !.initCalls = r.initCalls, !.failing = failing,
                                               !.succeeded = r.succeeded, !.pre = units]
            /\ UNCHANGED <<units, bound, regOrder>>
            /\ RegFrame

HealthAllUnits ==
    \E order \in RangeOrders(units), failing \in SUBSET Range(units) :
        /\ rlast' = [NoRegistryCall EXCEPT
                        !.op = "HealthAll", !.order = order, !.failing = failing,
                        !.health = IF registry = "module"
                                   THEN ModuleHealthCheck(units, order, failing)
                                   ELSE PluginHealthCheckAll(units, order, failing),
                        !.pre = units]
        /\ UNCHANGED <<units, initialized, bound, regOrder>>
        /\ RegFrame

ShutdownAllUnits ==
    \E order \in RangeOrders(units), failing \in SUBSET Range(units) :
        LET r == IF registry = "module" THEN ModuleShutdownAll(units, order, failing)
                 ELSE PluginShutdownAll(units, order, failing, initialized)
        IN  /\ initialized' = r.flag
            /\ rlast' = [NoRegistryCall EXCEPT !.op = "ShutdownAll", !.err = r.err,
                                               !.errNames = r.errNames, !.order = order,
                                               !.shutCalls = r.shutCalls, !.failing = failing,
                                               !.succeeded = r.succeeded, !.pre = units]
            /\ UNCHANGED <<units, bound, regOrder>>
            /\ RegFrame

RegistryNext ==
    RegisterUnit \/ UnregisterUnit \/ InitializeAllUnits \/ HealthAllUnits \/ ShutdownAllUnits

SpecRegistry == RegistryInit /\ [][RegistryNext]_vars


(***************************************************************************)
(* Properties of the installer (SpecInstaller)                             *)
(***************************************************************************)
\* The service prefix of a filename: its first underscore-separated token.
PrefixOf == [f \in Names |-> Str(Split(TrimSuffix(Chars(f), Ext), "_")[1])]

\* The installed files whose name parses to the service s
VersionsOf(dir, s) ==
    {f \in Installed(dir) : tab.info[f].kind = "ok" /\ tab.info[f].ServiceName = s}

Services == {tab.info[f].ServiceName : f \in {g \in Names : tab.info[g].kind = "ok"}}

\* C1 as stated: after any sequence of InstallFromURL calls that succeed, whatever
\* the filenames, at most one installed file has a given service prefix.
C1_OneFilePerServicePrefix ==
    inst.onlyOk =>
        \A f \in Installed(vpks), g \in Installed(vpks) :
            PrefixOf[f] = PrefixOf[g] => f = g

\* C1 amended: after any sequence of installer calls, succeeding or failing, at most
\* one installed file has a name that parsePluginInfo parses to a given service.
C1_OneParsedFilePerService ==
    \A s \in Services : Cardinality(VersionsOf(vpks, s)) <= 1

\* C1 witness: a successful install has replaced another version of its service
\* while a file that does not parse, with the same service prefix, is installed.
C1_Witness ==
    /\ inst.op = "install"
    /\ inst.result = "ok"
    /\ tab.info[inst.file].kind = "ok"
    /\ VersionsOf(inst.pre, tab.info[inst.file].ServiceName) \ {inst.file} # {}
    /\ \E g \in Installed(vpks) :
          tab.info[g].kind = "error" /\ PrefixOf[g] = tab.info[inst.file].ServiceName

\* The last call is a successful install of a file of service s while another
\* version of s was installed.
ReplacesVersion(s) ==
    /\ inst.op = "install"
    /\ inst.result = "ok"
    /\ tab.info[inst.file].kind = "ok"
    /\ tab.info[inst.file].ServiceName = s
    /\ VersionsOf(inst.pre, s) \ {inst.file} # {}

\* C2: when a version of service s is installed and InstallFromURL succeeds for
\* another filename of s, the new file is afterwards the only file of s, and every
\* file that is not a version of s is as it was.
C2_VersionReplaced ==
    \A s \in Services :
        ReplacesVersion(s) =>
            /\ VersionsOf(vpks, s) = {inst.file}
            /\ vpks[inst.file] = "complete"
            /\ \A f \in Names : f \notin VersionsOf(inst.pre, s) \cup {inst.file}
                                    => vpks[f] = inst.pre[f]

\* C2 witness: a version has been replaced while a file of another service and a
\* file that does not parse were installed.
C2_Witness ==
    \E s \in Services :
        /\ ReplacesVersion(s)
        /\ \E f \in Installed(inst.pre) : tab.info[f].kind = "ok" /\ tab.info[f].ServiceName # s
        /\ \E f \in Installed(inst.pre) : tab.info[f].kind = "error"

(***************************************************************************)
(* Properties of the rate limiter, one call at a time (SpecLimiter)        *)
(***************************************************************************)
\* The list of a key, empty for a missing key
ListOf(reqs, key) == IF key \in DOMAIN reqs THEN reqs[key] ELSE <<>>

\* How many entries of a list satisfy ts > lo
CountAfter(list, lo) == Cardinality({i \in 1..Len(list) : list[i] > lo})

IsAllowCall == last.op \in {"Allow", "AllowN"}

\* How many timestamps the last AllowN call has appended
Appended == IF last.memOk THEN last.n ELSE 0

\* C3: for every key, the number of recorded timestamps that lie within the last W,
\* that is in [now - W, now], never exceeds the limit.
C3_RecordedWithinLimit ==
    \A k \in DOMAIN requests :
        Cardinality({i \in 1..Len(requests[k]) :
                        /\ requests[k][i] >= now - WindowTicks
                        /\ requests[k][i] <= now}) <= limit

\* C3 witness: a call has been refused on a key whose window is full.
C3_Witness ==
    /\ IsAllowCall
    /\ ~last.memOk
    /\ limit >= 1
    /\ last.n <= limit
    /\ CountAfter(ListOf(requests, last.key), now - WindowTicks) = limit

\* C5 as stated: both backends give the same decisions and the same remaining counts
\* for the same calls at the same clock readings.
C5_BackendsAgree ==
    /\ IsAllowCall => last.memOk = last.redisOk
    /\ last.op = "GetRemaining" => last.memRem = last.redisRem

C7_AllowNDecision ==
    IsAllowCall =>
        LET c    == CountAfter(ListOf(last.pre, last.key), now - WindowTicks)
            list == ListOf(requests, last.key)
        IN  /\ last.memOk = ~(c + last.n > limit)
            /\ Len(list) = c + (IF last.memOk THEN last.n ELSE 0)
            /\ \A i \in (c + 1)..Len(list) : list[i] = now
            /\ \A k \in Keys \ {last.key} :
                  /\ k \in DOMAIN requests <=> k \in DOMAIN last.pre
                  /\ ListOf(requests, k) = ListOf(last.pre, k)

\* C7 witness: both outcomes on a key that holds timestamps, another key being in use:
\* here an accepted call for more than one permit.
C7_Witness ==
    /\ last.op = "AllowN"
    /\ last.memOk
    /\ last.n = 2
    /\ \E k \in Keys \ {last.key} : Len(ListOf(last.pre, k)) > 0

\* C9: right after Reset(k) the key has no state, Remaining(k) is L and AllowN(k, n)
\* succeeds for every n <= L, and every other key, with its Remaining, is as before.
C9_ResetFrame ==
    last.op = "Reset" =>
        /\ last.key \notin DOMAIN requests
        /\ MemGetRemaining(requests, limit, last.key, now).remaining = limit
        /\ \A n \in 0..limit : MemAllowN(requests, limit, last.key, n, now).ok
        /\ \A k \in Keys \ {last.key} :
              /\ k \in DOMAIN requests <=> k \in DOMAIN last.pre
              /\ ListOf(requests, k) = ListOf(last.pre, k)
              /\ MemGetRemaining(requests, limit, k, now).remaining
                     = MemGetRemaining(last.pre, limit, k, now).remaining

\* C9 witness: Reset of a key whose window was full, another key having used permits.
C9_Witness ==
    /\ last.op = "Reset"
    /\ limit >= 1
    /\ CountAfter(ListOf(last.pre, last.key), now - WindowTicks) = limit
    /\ \E k \in Keys \ {last.key} :
          CountAfter(ListOf(requests, k), now - WindowTicks) > 0

\* C10: Allow(k) answers true while fewer than L permits of the key lie inside the
\* window and false once L do, so that from an empty key the first L calls inside one
\* window succeed and the next fails; and once the clock is more than W past every
\* accepted call, Allow(k) answers true again.
C10_PermitsRecover ==
    last.op = "Allow" =>
        LET pre  == ListOf(last.pre, last.key)
            live == CountAfter(pre, now - WindowTicks)
        IN  /\ live < limit => last.memOk
            /\ live >= limit => ~last.memOk
            /\ (limit >= 1 /\ \A i \in 1..Len(pre) : pre[i] < now - WindowTicks)
                  => last.memOk

\* C10 witness: the key held L accepted permits, the clock has moved more than W past
\* them, and Allow has answered true again.
C10_Witness ==
    /\ last.op = "Allow"
    /\ last.memOk
    /\ limit >= 1
    /\ Len(ListOf(last.pre, last.key)) = limit
    /\ \A i \in 1..Len(ListOf(last.pre, last.key)) :
          last.pre[last.key][i] < now - WindowTicks

(***************************************************************************)
(* Properties of the limiter under concurrent handlers                     *)
(* (SpecLimiterConcurrent)                                                 *)
(***************************************************************************)
RECURSIVE SumN(_)
SumN(hs) ==
    IF hs = {} THEN 0
    ELSE LET h == CHOOSE x \in hs : TRUE
         IN  hloc[h].n + SumN(hs \ {h})

\* The permits granted on a key by the calls that have returned true
Granted(key) ==
    SumN({h \in Handlers : hpc[h] \in {"done", "reported"} /\ hloc[h].ok /\ hloc[h].key = key})

\* C4 as stated: under any interleaving of concurrent AllowN calls the permits
\* granted on a key within one window never exceed L.
C4_ConcurrentGrantsWithinLimit ==
    \A key \in Keys : Granted(key) <= limit


\* C8 as stated: whatever calls came before, the value Remaining(key) returns is
\* never negative and never above L.
C8_RemainingInRange ==
    \A h \in Handlers :
        hpc[h] = "reported" => 0 <= hloc[h].rem /\ hloc[h].rem <= limit


(***************************************************************************)
(* The loader and the packager: LoadPlugin and UnloadPlugin of VKPLoader,  *)
(* Initialize and Shutdown of a loaded VKPPlugin, and Package of           *)
(* VKPPackager, over one disk.                                             *)
(***************************************************************************)
LoaderInit ==
    /\ tab = Tables
    /\ vpks = EmptyDir
    /\ inst = NoInstall
    /\ now = 0
    /\ limit = 0
    /\ window = 1
    /\ requests = EmptyMap
    /\ zset = EmptyMap
    /\ expireAt = EmptyMap
    /\ last = NoCall
    /\ hpc = [h \in Handlers |-> "idle"]
    /\ hloc = [h \in Handlers |-> NoLocals]
    /\ crashed = FALSE
    /\ registry = "plugin"
    /\ units = EmptyMap
    /\ initialized = FALSE
    /\ bound = EmptyMap
    /\ regOrder = <<>>
    /\ rlast = NoRegistryCall
    /\ loaded = EmptyMap
    /\ dirs = EmptyMap
    /\ files = InitialFiles
    /\ llast = NoLoaderCall
    /\ api = NoRequest
    /\ routes = {}
    /\ mw = [c \in Clients |-> MwIdle]
    /\ mu = Unlocked
    /\ mpc = [t \in Callers |-> CallerIdle]
    /\ parse = NoParse
    /\ srv = NoServer
    /\ inited = {}
    /\ disk = {}

LdFrame == UNCHANGED <<instVars, limVars, concVars, regVars, apiVars, mwVars, lockVars, auxVars>>

\* loader.LoadPlugin(path)
Load ==
    \E path \in Paths, io \in DiskOutcomes :
        LET r == LoadPlugin(loaded, dirs, files, path, io)
        IN  /\ Cardinality(DOMAIN r.dirs) <= MaxDirs
            /\ loaded' = r.loaded
            /\ dirs' = r.dirs
            /\ llast' = [NoLoaderCall EXCEPT !.op = "Load", !.path = path, !.err = r.err,
                                             !.named = r.named, !.name = r.name,
                                             !.had = r.named /\ r.name \in DOMAIN loaded,
                                             !.old = EntryOf(loaded, r.name),
                                             !.same = (r.loaded = loaded /\ r.dirs = dirs)]
            /\ UNCHANGED files
            /\ LdFrame

\* loader.UnloadPlugin(name)
Unload ==
    \E name \in LoaderNames, killFails \in BOOLEAN, removeFails \in BOOLEAN :
        LET r == UnloadPlugin(loaded, dirs, name, killFails, removeFails)
        IN  /\ loaded' = r.loaded
            /\ dirs' = r.dirs
            /\ llast' = [NoLoaderCall EXCEPT !.op = "Unload", !.name = name, !.err = r.err,
                                             !.had = name \in DOMAIN loaded,
                                             !.old = EntryOf(loaded, name),
                                             !.removeFails = removeFails,
                                             !.killFails = r.killErr, !.proc = r.proc,
                                             !.same = (r.loaded = loaded /\ r.dirs = dirs)]
            /\ UNCHANGED files
            /\ LdFrame

\* Initialize of a loaded plugin
InitializeLoaded ==
    \E name \in DOMAIN loaded, startFails \in BOOLEAN :
        LET r == VKPInitialize(loaded[name].Plugin, startFails)
        IN  /\ loaded' = [loaded EXCEPT ![name].Plugin = r.obj]
            /\ llast' = [NoLoaderCall EXCEPT !.op = "Initialize", !.name = name,
                                             !.err = IF r.err THEN "start" ELSE ""]
            /\ UNCHANGED <<dirs, files>>
            /\ LdFrame

\* Shutdown of a loaded plugin
ShutdownLoaded ==
    \E name \in DOMAIN loaded, killFails \in BOOLEAN :
        LET r == VKPShutdown(loaded[name].Plugin, killFails)
        IN  /\ loaded' = [loaded EXCEPT ![name].Plugin = r.obj]
            /\ llast' = [NoLoaderCall EXCEPT !.op = "Shutdown", !.name = name,
                                             !.err = IF r.err THEN "kill" ELSE ""]
            /\ UNCHANGED <<dirs, files>>
            /\ LdFrame

\* packager.Package(config) with config.OutputPath = OutputPath
PackagePlugin ==
    \E metadata \in PackagedMetadata, includeFiles \in IncludeFileSets, buildFails \in BOOLEAN :
        /\ files' = IF buildFails THEN files
                    ELSE With(files, OutputPath, createVKPPackage(metadata, includeFiles))
        /\ llast' = [NoLoaderCall EXCEPT !.op = "Package", !.path = OutputPath,
                                         !.err = IF buildFails THEN "build" ELSE "",
                                         !.metadata = metadata]
        /\ UNCHANGED <<loaded, dirs>>
        /\ LdFrame

LoaderNext ==
    \/ Load
    \/ Unload
    \/ InitializeLoaded
    \/ ShutdownLoaded
    \/ PackagePlugin

SpecLoader == LoaderInit /\ [][LoaderNext]_vars

(***************************************************************************)
(* The supervisor: a VKPPlugin from its load to its unload, with the child *)
(* process it starts. The disk holds three of the packages.                *)
(***************************************************************************)
SupervisorInit ==
    /\ tab = Tables
    /\ vpks = EmptyDir
    /\ inst = NoInstall
    /\ now = 0
    /\ limit = 0
    /\ window = 1
    /\ requests = EmptyMap
    /\ zset = EmptyMap
    /\ expireAt = EmptyMap
    /\ last = NoCall
    /\ hpc = [h \in Handlers |-> "idle"]
    /\ hloc = [h \in Handlers |-> NoLocals]
    /\ crashed = FALSE
    /\ registry = "plugin"
    /\ units = EmptyMap
    /\ initialized = FALSE
    /\ bound = EmptyMap
    /\ regOrder = <<>>
    /\ rlast = NoRegistryCall
    /\ loaded = EmptyMap
    /\ dirs = EmptyMap
    /\ files = [p \in {VkpPath("a1"), VkpPath("empty"), VkpPath("nobin")} |-> InitialFiles[p]]
    /\ llast = NoLoaderCall
    /\ api = NoRequest
    /\ routes = {}
    /\ mw = [c \in Clients |-> MwIdle]
    /\ mu = Unlocked
    /\ mpc = [t \in Callers |-> CallerIdle]
    /\ parse = NoParse
    /\ srv = NoServer
    /\ inited = {}
    /\ disk = {}

\* The child of a loaded plugin ends by itself
ChildExit ==
    \E name \in DOMAIN loaded :
        /\ Alive(loaded[name].Plugin)
        /\ loaded' = [loaded EXCEPT ![name].Plugin.proc = "exited"]
        /\ llast' = [NoLoaderCall EXCEPT !.op = "Exit", !.name = name]
        /\ UNCHANGED <<dirs, files>>
        /\ LdFrame

\* Health of a loaded plugin
HealthLoaded ==
    \E name \in DOMAIN loaded, probeFails \in BOOLEAN :
        LET r == VKPHealth(loaded[name].Plugin, probeFails)
        IN  /\ llast' = [NoLoaderCall EXCEPT !.op = "Health", !.name = name,
                                             !.err = IF r.err THEN "probe" ELSE "",
                                             !.status = r.status]
            /\ UNCHANGED <<loaded, dirs, files>>
            /\ LdFrame

\* Manager.ShutdownAll over the loaded plugins: every plugin is shut down, the
\* failures are collected.
ShutdownAllLoaded ==
    \E failing \in SUBSET DOMAIN loaded :
        /\ loaded # EmptyMap
        /\ loaded' = [n \in DOMAIN loaded |->
                        [loaded[n] EXCEPT !.Plugin = VKPShutdown(@, n \in failing).obj]]
        /\ llast' = [NoLoaderCall EXCEPT
                        !.op = "ShutdownAll",
                        !.err = IF \E n \in DOMAIN loaded :
                                      VKPShutdown(loaded[n].Plugin, n \in failing).err
                                THEN "shutdown" ELSE ""]
        /\ UNCHANGED <<dirs, files>>
        /\ LdFrame

SupervisorNext ==
    \/ Load
    \/ Unload
    \/ InitializeLoaded
    \/ ShutdownLoaded
    \/ ShutdownAllLoaded
    \/ ChildExit
    \/ HealthLoaded

SpecSupervisor == SupervisorInit /\ [][SupervisorNext]_vars

(***************************************************************************)
(* Properties of the unit registries (SpecRegistry)                        *)
(***************************************************************************)
\* Get(name) on the registry that is driven
Get(name) == IF registry = "module" THEN GetModule(units, name) ELSE GetPlugin(units, name)

\* The elements of a sequence
Elems(seq) == {seq[i] : i \in 1..Len(seq)}

NoRepeat(seq) == \A i \in 1..Len(seq), j \in 1..Len(seq) : seq[i] = seq[j] => i = j

\* C11: Register(name, unit) on a registry that already holds name returns an error
\* and leaves the registry as it was: Get(name) still returns the instance that was
\* bound to name before.
C11_RegisterNoOverwrite ==
    (rlast.op = "Register" /\ rlast.name \in DOMAIN rlast.pre) =>
        /\ rlast.err
        /\ units = rlast.pre
        /\ Get(rlast.name) = [unit |-> rlast.pre[rlast.name], exists |-> TRUE]

\* C11 witness: a Register of another instance under a name that is taken.
C11_Witness ==
    /\ rlast.op = "Register"
    /\ rlast.name \in DOMAIN rlast.pre
    /\ rlast.unit # rlast.pre[rlast.name]
    /\ Cardinality(DOMAIN units) >= 2

\* C12: from a successful Register(name, u) until Unregister(name), whatever other
\* registry calls run, Get(name) returns (u, true); a name that was never registered
\* or has been unregistered is not found.
C12_GetReturnsRegistered ==
    \A name \in UnitNames :
        IF name \in DOMAIN bound
        THEN Get(name) = [unit |-> bound[name], exists |-> TRUE]
        ELSE ~Get(name).exists

\* C12 witness: a name is still bound after a refused Register of the same name, and
\* another name has been unregistered.
C12_Witness ==
    /\ rlast.op = "Unregister"
    /\ ~rlast.err
    /\ \E name \in DOMAIN bound : name \in DOMAIN rlast.pre /\ bound[name] = rlast.pre[name]
    /\ rlast.name \notin DOMAIN bound

\* C13: InitializeAll stops at the first unit whose Initialize fails: the units
\* visited before it have been initialized and none is shut down, the units after it
\* are not called, and the error names the failing unit and no other.
C13_InitializeAllFailsFast ==
    (rlast.op = "InitializeAll" /\ rlast.err) =>
        \E k \in 1..Len(rlast.order) :
            /\ units[rlast.order[k]] \in rlast.failing
            /\ \A j \in 1..(k - 1) : units[rlast.order[j]] \notin rlast.failing
            /\ rlast.initCalls = SubSeq(rlast.order, 1, k)
            /\ rlast.succeeded = {units[rlast.order[j]] : j \in 1..(k - 1)}
            /\ rlast.shutCalls = <<>>
            /\ rlast.errNames = <<rlast.order[k]>>
            /\ units = rlast.pre

\* C13 witness: of three units the second one visited fails.
C13_Witness ==
    /\ rlast.op = "InitializeAll"
    /\ rlast.err
    /\ Len(rlast.order) = 3
    /\ Len(rlast.initCalls) = 2

\* The names in alphabetical order
NameRank == [n \in UnitNames |-> IF n = "a" THEN 1 ELSE IF n = "b" THEN 2 ELSE 3]

InNameOrder(seq) == \A i \in 1..Len(seq), j \in 1..Len(seq) : i < j => NameRank[seq[i]] < NameRank[seq[j]]

\* C14 as stated: InitializeAll visits the units in the order of their registration,
\* or else in the order of their names.
C14_InitializeAllOrder ==
    (rlast.op = "InitializeAll" /\ ~rlast.err) =>
        \/ rlast.initCalls = regOrder
        \/ InNameOrder(rlast.initCalls)

\* C15: ShutdownAll calls Shutdown once on every registered unit, failing units
\* included, and returns an error exactly when a unit failed; the error names every
\* unit that failed and no other.
C15_ShutdownAllCollects ==
    rlast.op = "ShutdownAll" =>
        /\ Elems(rlast.shutCalls) = DOMAIN units
        /\ NoRepeat(rlast.shutCalls)
        /\ rlast.err <=> (\E n \in DOMAIN units : units[n] \in rlast.failing)
        /\ Elems(rlast.errNames) = {n \in DOMAIN units : units[n] \in rlast.failing}
        /\ NoRepeat(rlast.errNames)
        /\ units = rlast.pre

\* C15 witness: of three units the first one visited and one more fail.
C15_Witness ==
    /\ rlast.op = "ShutdownAll"
    /\ Len(rlast.order) = 3
    /\ units[rlast.order[1]] \in rlast.failing
    /\ Len(rlast.errNames) = 2

\* C16 as stated: HealthAll returns one entry per registered unit name, and the entry
\* of a name holds the result of that unit's own probe.
C16_HealthAllPerUnit ==
    rlast.op = "HealthAll" =>
        \A n \in DOMAIN units :
            /\ n \in DOMAIN rlast.health
            /\ rlast.health[n] = Probe(units[n], rlast.failing)

(***************************************************************************)
(* Properties of the loader and the packager (SpecLoader)                  *)
(***************************************************************************)
\* The last call was LoadPlugin and it returned no error
LoadSucceeded == llast.op = "Load" /\ llast.err = ""

\* The last call was UnloadPlugin of a loaded name (it returns no error)
Unloaded == llast.op = "Unload" /\ llast.had /\ llast.err = ""

\* C17: LoadPlugin of a package whose metadata name is already in the loader's map
\* fails, and the entry under that name (plugin object, path and extraction
\* directory) is the one from before the call.
C17_LoadNameConflict ==
    (llast.op = "Load" /\ llast.had) =>
        /\ llast.err # ""
        /\ llast.name \in DOMAIN loaded
        /\ loaded[llast.name] = llast.old

C19_LoadValidatesMetadata ==
    /\ LoadSucceeded =>
          LET lp  == loaded[llast.name]
              doc == dirs[lp.ExtractDir]["plugin.json"].doc
          IN  /\ lp.Plugin.metadata.Name # ""
              /\ lp.Plugin.metadata.Version # ""
              /\ ("api_version" \notin DOMAIN doc => lp.Plugin.metadata.APIVersion = "v1")
    /\ (llast.op = "Load" /\ llast.err = "metadata") => ~llast.named

\* C20: the metadata the packager wrote into the archive at OutputPath, unpacked and
\* parsed by the loader, is the metadata the packager was given, and LoadPlugin of
\* a package the packager wrote does not fail on the metadata.
C20_PackageRoundTrip ==
    /\ (llast.op = "Package" /\ llast.err = "") =>
          LET r == readPluginMetadata(extractVKP(files[OutputPath], EmptyMap))
          IN  /\ r.ok
              /\ (llast.metadata # NilMetadata => r.metadata = llast.metadata)
    /\ (llast.op = "Load" /\ llast.path = OutputPath /\ OutputPath \in DOMAIN files) =>
          llast.err \notin {"metadata", "chmod"}

(***************************************************************************)
(* parsePluginInfo on filenames put together from parts                    *)
(***************************************************************************)
\* A filename has up to MaxParts parts between its underscores.
MaxParts == 4

\* The parts: three words, two versions (one with a suffix) and a word that begins
\* like a version
ParseTokens ==
    { <<"a">>, <<"x">>, <<"y">>, V100, V101 \o <<"-", "r", "c">>, <<"v", "1">> }

\* The sequences of 1..n parts
RECURSIVE PartSeqs(_)
PartSeqs(n) ==
    IF n = 0 THEN {<<>>}
    ELSE LET shorter == PartSeqs(n - 1)
         IN  shorter \cup {Append(ps, t) : ps \in {q \in shorter : Len(q) = n - 1},
                                           t \in ParseTokens}

\* The spelling of the filename with these parts
FilenameOf(parts) == Join(parts, "_") \o Ext

ParserInit ==
    /\ parse \in {[NoParse EXCEPT !.parts = ps] : ps \in PartSeqs(MaxParts) \ {<<>>}}
    /\ tab = Tables
    /\ vpks = EmptyDir
    /\ inst = NoInstall
    /\ now = 0
    /\ limit = 0
    /\ window = 1
    /\ requests = EmptyMap
    /\ zset = EmptyMap
    /\ expireAt = EmptyMap
    /\ last = NoCall
    /\ hpc = [h \in Handlers |-> "idle"]
    /\ hloc = [h \in Handlers |-> NoLocals]
    /\ crashed = FALSE
    /\ registry = "plugin"
    /\ units = EmptyMap
    /\ initialized = FALSE
    /\ bound = EmptyMap
    /\ regOrder = <<>>
    /\ rlast = NoRegistryCall
    /\ loaded = EmptyMap
    /\ dirs = EmptyMap
    /\ files = EmptyMap
    /\ llast = NoLoaderCall
    /\ api = NoRequest
    /\ routes = {}
    /\ mw = [c \in Clients |-> MwIdle]
    /\ mu = Unlocked
    /\ mpc = [t \in Callers |-> CallerIdle]
    /\ srv = NoServer
    /\ inited = {}
    /\ disk = {}

\* parsePluginInfo is called with the filename.
ParseFilename ==
    /\ parse.info.kind = "none"
    /\ parse' = [parse EXCEPT !.info = ParseSpelling(FilenameOf(parse.parts))]
    /\ UNCHANGED <<instVars, limVars, concVars, regVars, ldVars, apiVars, mwVars, lockVars,
                   srv, inited, disk>>

ParserNext == ParseFilename

SpecParser == ParserInit /\ [][ParserNext]_vars

(***************************************************************************)
(* The life cycle of plugin.Manager: which plugins have been initialized   *)
(* while m.initialized is set. inited: the instances whose Initialize has  *)
(* succeeded since the last ShutdownAll.                                   *)
(***************************************************************************)
LifecycleInit ==
    /\ tab = Tables
    /\ vpks = EmptyDir
    /\ inst = NoInstall
    /\ now = 0
    /\ limit = 0
    /\ window = 1
    /\ requests = EmptyMap
    /\ zset = EmptyMap
    /\ expireAt = EmptyMap
    /\ last = NoCall
    /\ hpc = [h \in Handlers |-> "idle"]
    /\ hloc = [h \in Handlers |-> NoLocals]
    /\ crashed = FALSE
    /\ registry = "plugin"
    /\ units = EmptyMap
    /\ initialized = FALSE
    /\ bound = EmptyMap
    /\ regOrder = <<>>
    /\ rlast = NoRegistryCall
    /\ loaded = EmptyMap
    /\ dirs = EmptyMap
    /\ files = EmptyMap
    /\ llast = NoLoaderCall
    /\ api = NoRequest
    /\ routes = {}
    /\ mw = [c \in Clients |-> MwIdle]
    /\ mu = Unlocked
    /\ mpc = [t \in Callers |-> CallerIdle]
    /\ parse = NoParse
    /\ srv = NoServer
    /\ inited = {}
    /\ disk = {}

LifecycleFrame ==
    UNCHANGED <<registry, bound, regOrder, rlast, instVars, limVars, concVars, ldVars, apiVars,
                mwVars, lockVars, parse, srv, disk>>

\* RegisterPlugin(plugin). LoadPluginFromFile and InstallAndLoadPluginFromURL put the
\* plugin they loaded into m.plugins in the same way; none of the three calls
\* Initialize or looks at m.initialized.
AddPlugin ==
    \E u \in Instances :
        /\ units' = RegisterPlugin(units, u).reg
        /\ UNCHANGED <<initialized, inited>>
        /\ LifecycleFrame

\* UnregisterPlugin(name)
DropPlugin ==
    \E name \in UnitNames :
        /\ units' = UnregisterPlugin(units, name).reg
        /\ UNCHANGED <<initialized, inited>>
        /\ LifecycleFrame

\* InitializeAll
InitializePlugins ==
    \E order \in RangeOrders(units), failing \in SUBSET Range(units) :
        \E r \in {PluginInitializeAll(units, order, failing, initialized)} :
            /\ initialized' = r.flag
            /\ inited' = inited \cup r.succeeded
            /\ UNCHANGED units
            /\ LifecycleFrame

\* ShutdownAll
ShutdownPlugins ==
    \E order \in RangeOrders(units), failing \in SUBSET Range(units) :
        \E r \in {PluginShutdownAll(units, order, failing, initialized)} :
            /\ initialized' = r.flag
            /\ inited' = {}
            /\ UNCHANGED units
            /\ LifecycleFrame

LifecycleNext == AddPlugin \/ DropPlugin \/ InitializePlugins \/ ShutdownPlugins

SpecLifecycle == LifecycleInit /\ [][LifecycleNext]_vars

(***************************************************************************)
(* Extraction of an archive, path by path. A path is the sequence of its   *)
(* components; disk: the paths of the files extractVKP has created.        *)
(***************************************************************************)
\* The longest member name, in components, and the most members extracted
MaxDepth == 3

MaxMembers == 2

\* The components of a member name
Comps == {"a", "b", "..", "."}

RECURSIVE CompSeqs(_)
CompSeqs(n) ==
    IF n = 0 THEN {<<>>}
    ELSE LET shorter == CompSeqs(n - 1)
         IN  shorter \cup {Append(cs, c) : cs \in {q \in shorter : Len(q) = n - 1}, c \in Comps}

\* The headers an archive can carry: a name, relative or with a leading slash, and
\* the type of the member. archive/tar hands every name to the caller as it is.
Headers ==
    [abs : BOOLEAN, comps : CompSeqs(MaxDepth) \ {<<>>}, typeflag : {"TypeReg", "TypeDir"}]

\* The extraction directory of the package p.vkp under the plugin directory "plugins"
ExtractDir == <<"plugins", "temp", "p.vkp_extracted">>

\* filepath.Clean of a relative path: "." is dropped, ".." removes the component
\* before it, and stays when there is none to remove.
RECURSIVE Clean(_, _)
Clean(done, rest) ==
    IF rest = <<>> THEN done
    ELSE LET c == Head(rest)
         IN  IF c = "." THEN Clean(done, Tail(rest))
             ELSE IF c = ".." /\ done # <<>> /\ done[Len(done)] # ".."
                  THEN Clean(SubSeq(done, 1, Len(done) - 1), Tail(rest))
             ELSE Clean(Append(done, c), Tail(rest))

\* filepath.Join(extractDir, header.Name): the two are put together with a separator
\* and the result is cleaned, so a leading slash of the name makes no difference.
filepathJoin(dir, header) == Clean(<<>>, dir \o header.comps)

ExtractInit ==
    /\ tab = Tables
    /\ vpks = EmptyDir
    /\ inst = NoInstall
    /\ now = 0
    /\ limit = 0
    /\ window = 1
    /\ requests = EmptyMap
    /\ zset = EmptyMap
    /\ expireAt = EmptyMap
    /\ last = NoCall
    /\ hpc = [h \in Handlers |-> "idle"]
    /\ hloc = [h \in Handlers |-> NoLocals]
    /\ crashed = FALSE
    /\ registry = "plugin"
    /\ units = EmptyMap
    /\ initialized = FALSE
    /\ bound = EmptyMap
    /\ regOrder = <<>>
    /\ rlast = NoRegistryCall
    /\ loaded = EmptyMap
    /\ dirs = EmptyMap
    /\ files = EmptyMap
    /\ llast = NoLoaderCall
    /\ api = NoRequest
    /\ routes = {}
    /\ mw = [c \in Clients |-> MwIdle]
    /\ mu = Unlocked
    /\ mpc = [t \in Callers |-> CallerIdle]
    /\ parse = NoParse
    /\ srv = NoServer
    /\ inited = {}
    /\ disk = {}

\* p is a proper prefix of q
ProperPrefix(p, q) == Len(p) < Len(q) /\ SubSeq(q, 1, Len(p)) = p

\* The path is a directory: the working directory or one above it, the extraction
\* directory or one on the way to it, or one that holds a file created before.
IsDir(path, created) ==
    \/ \A i \in 1..Len(path) : path[i] = ".."
    \/ path = ExtractDir
    \/ ProperPrefix(path, ExtractDir)
    \/ \E f \in created : ProperPrefix(path, f)

\* os.MkdirAll(filepath.Dir(target)) and os.Create(target) succeed: no file stands
\* where a directory is needed, and the target is no directory.
CanCreate(target, created) ==
    /\ ~IsDir(target, created)
    /\ ~\E f \in created : ProperPrefix(f, target)

\* One turn of the loop of extractVKP: the file of a regular member is created at
\* the joined path; members of other types are skipped. When the file cannot be
\* created the extraction ends with the error.
ExtractMember ==
    \E header \in Headers :
        /\ Cardinality(disk) < MaxMembers
        /\ disk' = IF header.typeflag = "TypeReg"
                      /\ CanCreate(filepathJoin(ExtractDir, header), disk)
                   THEN disk \cup {filepathJoin(ExtractDir, header)}
                   ELSE disk
        /\ UNCHANGED <<regVars, instVars, limVars, concVars, ldVars, apiVars, mwVars, lockVars,
                       parse, srv, inited>>

ExtractNext == ExtractMember

SpecExtract == ExtractInit /\ [][ExtractNext]_vars

(***************************************************************************)
(* The gateway process: runServer from the registration of the modules to  *)
(* its return. srv.phase is the position of the main goroutine, accepting  *)
(* whether the listener takes requests, calls the shutdown calls made so   *)
(* far, each with whether the listener was accepting at that moment.       *)
(* units is the module Manager's registry, loaded the map of the plugin    *)
(* Manager's loader.                                                       *)
(***************************************************************************)
\* The most requests served in one run
MaxRequests == 3

\* The packages a request to the plugin API can load
GatewayPaths == {VkpPath("a1"), VkpPath("a2"), VkpPath("empty")}

RunServerInit ==
    /\ tab = Tables
    /\ vpks = EmptyDir
    /\ inst = NoInstall
    /\ now = 0
    /\ limit = 0
    /\ window = 1
    /\ requests = EmptyMap
    /\ zset = EmptyMap
    /\ expireAt = EmptyMap
    /\ last = NoCall
    /\ hpc = [h \in Handlers |-> "idle"]
    /\ hloc = [h \in Handlers |-> NoLocals]
    /\ crashed = FALSE
    /\ registry = "module"
    /\ units = EmptyMap
    /\ initialized = FALSE
    /\ bound = EmptyMap
    /\ regOrder = <<>>
    /\ rlast = NoRegistryCall
    /\ loaded = EmptyMap
    /\ dirs = EmptyMap
    /\ files = InitialFiles
    /\ llast = NoLoaderCall
    /\ api = NoRequest
    /\ routes = {}
    /\ mw = [c \in Clients |-> MwIdle]
    /\ mu = Unlocked
    /\ mpc = [t \in Callers |-> CallerIdle]
    /\ parse = NoParse
    /\ srv = [NoServer EXCEPT !.phase = "created"]
    /\ inited = {}
    /\ disk = {}

GatewayFrame ==
    UNCHANGED <<registry, initialized, bound, regOrder, rlast, instVars, limVars, concVars,
                files, llast, apiVars, mwVars, lockVars, parse, inited, disk>>

\* The two modules are registered; a failure is fatal.
RegisterModules ==
    /\ srv.phase = "created"
    /\ \E r \in {RegisterModule(RegisterModule(units, "a", "u1").reg, "b", "u3")} :
           /\ units' = r.reg
           /\ srv' = [srv EXCEPT !.phase = IF r.err THEN "fatal" ELSE "registered"]
    /\ UNCHANGED <<loaded, dirs>>
    /\ GatewayFrame

\* moduleManager.InitializeAll; a failure is fatal, otherwise the router is built and
\* the listener started.
InitializeModules ==
    /\ srv.phase = "registered"
    /\ \E order \in RangeOrders(units), failing \in SUBSET Range(units) :
           \E r \in {ModuleInitializeAll(units, order, failing)} :
               srv' = IF r.err THEN [srv EXCEPT !.phase = "fatal"]
                      ELSE [srv EXCEPT !.phase = "serving", !.accepting = TRUE]
    /\ UNCHANGED <<units, loaded, dirs>>
    /\ GatewayFrame

\* A request is served while the listener accepts: GET /health, or an install with
\* auto_load that ends in loader.LoadPlugin of a package. No request starts a
\* plugin's process: nothing in the gateway calls Initialize of a plugin.
ServeRequest ==
    /\ srv.accepting
    /\ srv.served < MaxRequests
    /\ srv' = [srv EXCEPT !.served = srv.served + 1]
    /\ \/ UNCHANGED <<loaded, dirs>>
       \/ \E path \in GatewayPaths :
              \E r \in {LoadPlugin(loaded, dirs, files, path, "ok")} :
                  /\ loaded' = r.loaded
                  /\ dirs' = r.dirs
    /\ UNCHANGED units
    /\ GatewayFrame

\* SIGINT or SIGTERM arrives.
Signal ==
    /\ srv.phase = "serving"
    /\ srv' = [srv EXCEPT !.phase = "signalled"]
    /\ UNCHANGED <<units, loaded, dirs>>
    /\ GatewayFrame

\* moduleManager.ShutdownAll; its error is only logged.
ShutdownModules ==
    /\ srv.phase = "signalled"
    /\ \E order \in RangeOrders(units), failing \in SUBSET Range(units) :
           \E r \in {ModuleShutdownAll(units, order, failing)} :
               srv' = [srv EXCEPT !.phase = "modules_down",
                                  !.calls = Append(srv.calls,
                                                   [call |-> "moduleManager.ShutdownAll",
                                                    accepting |-> srv.accepting,
                                                    err |-> r.err])]
    /\ UNCHANGED <<units, loaded, dirs>>
    /\ GatewayFrame

\* srv.Shutdown: the listener is closed; when the deadline passes first, the error
\* is fatal.
ServerShutdown ==
    /\ srv.phase = "modules_down"
    /\ \E late \in BOOLEAN :
           srv' = [srv EXCEPT !.phase = IF late THEN "fatal" ELSE "closed",
                              !.accepting = FALSE,
                              !.calls = Append(srv.calls,
                                               [call |-> "srv.Shutdown",
                                                accepting |-> srv.accepting,
                                                err |-> late])]
    /\ UNCHANGED <<units, loaded, dirs>>
    /\ GatewayFrame

\* runServer returns and the process ends.
ServerExited ==
    /\ srv.phase = "closed"
    /\ srv' = [srv EXCEPT !.phase = "exited"]
    /\ UNCHANGED <<units, loaded, dirs>>
    /\ GatewayFrame

GatewayNext ==
    \/ RegisterModules
    \/ InitializeModules
    \/ ServeRequest
    \/ Signal
    \/ ShutdownModules
    \/ ServerShutdown
    \/ ServerExited

SpecGateway == RunServerInit /\ [][GatewayNext]_vars

(***************************************************************************)
(* The plugin API: POST /api/v1/plugins/install, DELETE                    *)
(* /api/v1/plugins/remove, and the requests to a plugin's own route group. *)
(* The Manager holds its mutex for a whole call, so the requests are       *)
(* served one at a time.                                                   *)
(***************************************************************************)
\* The URLs the install requests carry
ApiURLs ==
    { GoodURL(Str(Spell_a_x_v100)), GoodURL(Str(Spell_a_x_v101)), GoodURL(Str(Spell_b_x_v100)),
      [scheme |-> "ftp", host |-> "h", path |-> "/" \o Str(Spell_a_x_v101)] }

\* The filenames the remove requests carry
ApiNames == {Str(Spell_a_x_v100), Str(Spell_a_x_v101), Str(Spell_b_x_v100), Str(Spell_m)}

\* What the disk does during the load of an install request
ApiDiskOutcomes == {"ok", "mkdir_error"}

\* The archive the server sends for a filename
Served(f) ==
    CASE f = Str(Spell_a_x_v100) -> InitialFiles[VkpPath("a1")]
      [] f = Str(Spell_a_x_v101) -> InitialFiles[VkpPath("a2")]
      [] f = Str(Spell_b_x_v100) -> HandMade(Marshal(MetaPlain))
      [] f = Str(Spell_m)        -> InitialFiles[VkpPath("badjson")]
      [] OTHER                   -> HandMade(EmptyMap)

\* The installer's tables and the served archives, tabulated once
ApiTables ==
    [t \in DOMAIN Tables \cup {"served"} |->
        IF t = "served" THEN [f \in Names |-> Served(f)] ELSE Tables[t]]

\* The files of the install directory by path; a file whose download broke off holds
\* no archive member.
DiskFiles(dir) ==
    [p \in {tab.path[f] : f \in Installed(dir)} |->
        LET f == CHOOSE g \in Installed(dir) : tab.path[g] = p
        IN  IF dir[f] = "complete" THEN tab.served[f] ELSE EmptyMap]

\* A variant of InstallAndLoadPluginFromURL that returns after the load and leaves
\* Manager.plugins as it was.
InstallAndLoadPluginFromURL_NoRegister(reg, ld, ds, dir, u, failAt, dl, io) ==
    LET i == InstallFromURL(dir, u, failAt, dl)
        l == LoadPlugin(ld, ds, DiskFiles(i.dir), tab.path[i.file], io)
    IN  IF i.result # "ok"
        THEN [err |-> IF i.result = "panic" THEN "panic" ELSE "install", result |-> i.result,
              file |-> i.file, name |-> "", dir |-> i.dir, loaded |-> ld, dirs |-> ds,
              units |-> reg]
        ELSE IF l.err # ""
        THEN [err |-> "load", result |-> l.err, file |-> i.file, name |-> "", dir |-> i.dir,
              loaded |-> l.loaded, dirs |-> l.dirs, units |-> reg]
        ELSE [err |-> "", result |-> "ok", file |-> i.file, name |-> l.name, dir |-> i.dir,
              loaded |-> l.loaded, dirs |-> l.dirs, units |-> reg]

\* Manager.InstallAndLoadPluginFromURL: the download, then the load of the local
\* file, then the entry in Manager.plugins under the plugin's name unless the name is
\* taken. err: "" (nil), "install", "load", "exists", or "panic" when InstallFromURL
\* panics.
InstallAndLoadPluginFromURL(reg, ld, ds, dir, u, failAt, dl, io) ==
    LET i == InstallFromURL(dir, u, failAt, dl)
        l == LoadPlugin(ld, ds, DiskFiles(i.dir), tab.path[i.file], io)
    IN  IF i.result # "ok"
        THEN [err |-> IF i.result = "panic" THEN "panic" ELSE "install", result |-> i.result,
              file |-> i.file, name |-> "", dir |-> i.dir, loaded |-> ld, dirs |-> ds,
              units |-> reg]
        ELSE IF l.err # ""
        THEN [err |-> "load", result |-> l.err, file |-> i.file, name |-> "", dir |-> i.dir,
              loaded |-> l.loaded, dirs |-> l.dirs, units |-> reg]
        ELSE IF l.name \in DOMAIN reg
        THEN [err |-> "exists", result |-> "exists", file |-> i.file, name |-> l.name,
              dir |-> i.dir, loaded |-> l.loaded, dirs |-> l.dirs, units |-> reg]
        ELSE [err |-> "", result |-> "ok", file |-> i.file, name |-> l.name, dir |-> i.dir,
              loaded |-> l.loaded, dirs |-> l.dirs,
              units |-> With(reg, l.name, l.loaded[l.name].Plugin)]

\* Manager.InstallPluginFromURL: the download only
InstallPluginFromURL(reg, ld, ds, dir, u, failAt, dl) ==
    LET i == InstallFromURL(dir, u, failAt, dl)
    IN  [err |-> IF i.result = "ok" THEN "" ELSE IF i.result = "panic" THEN "panic" ELSE "install",
         result |-> i.result, file |-> i.file, name |-> "", dir |-> i.dir, loaded |-> ld,
         dirs |-> ds, units |-> reg]

\* The status PluginHandler.InstallPlugin answers for the Manager's error; a panic is
\* caught by gin.Recovery and answered 500.
InstallStatus(err) == IF err = "" THEN 200 ELSE 500

\* The status PluginHandler.RemovePlugin answers for the result of
\* Manager.RemoveInstalledPlugin
RemoveStatus(result) == IF result = "ok" THEN 200 ELSE 500

ApiInit ==
    /\ tab = ApiTables
    /\ vpks = EmptyDir
    /\ inst = NoInstall
    /\ now = 0
    /\ limit = 0
    /\ window = 1
    /\ requests = EmptyMap
    /\ zset = EmptyMap
    /\ expireAt = EmptyMap
    /\ last = NoCall
    /\ hpc = [h \in Handlers |-> "idle"]
    /\ hloc = [h \in Handlers |-> NoLocals]
    /\ crashed = FALSE
    /\ registry = "plugin"
    /\ units = EmptyMap
    /\ initialized = FALSE
    /\ bound = EmptyMap
    /\ regOrder = <<>>
    /\ rlast = NoRegistryCall
    /\ loaded = EmptyMap
    /\ dirs = EmptyMap
    /\ files = EmptyMap
    /\ llast = NoLoaderCall
    /\ api = NoRequest
    /\ routes = {}
    /\ mw = [c \in Clients |-> MwIdle]
    /\ mu = Unlocked
    /\ mpc = [t \in Callers |-> CallerIdle]
    /\ parse = NoParse
    /\ srv = NoServer
    /\ inited = {}
    /\ disk = {}

ApiFrame == UNCHANGED <<tab, inst, limVars, concVars, registry, initialized, bound, regOrder,
                        rlast, llast, mwVars, lockVars, auxVars>>

\* PluginHandler.InstallPlugin with a body that binds
InstallRequest ==
    \E u \in ApiURLs, autoLoad \in BOOLEAN, dl \in DownloadOutcomes, io \in ApiDiskOutcomes :
        \E failAt \in 0..(IF tab.filename[u].ok
                           THEN Len(EvictionList(vpks, tab.filename[u].filename)) ELSE 0) :
            \E r \in {IF autoLoad
                      THEN InstallAndLoadPluginFromURL(units, loaded, dirs, vpks, u, failAt, dl, io)
                      ELSE InstallPluginFromURL(units, loaded, dirs, vpks, u, failAt, dl)} :
                /\ autoLoad \/ io = "ok"
                /\ vpks' = r.dir
                /\ files' = DiskFiles(r.dir)
                /\ loaded' = r.loaded
                /\ dirs' = r.dirs
                /\ units' = r.units
                /\ api' = [op |-> "install", filename |-> r.file, autoLoad |-> autoLoad,
                           status |-> InstallStatus(r.err), result |-> r.result,
                           name |-> r.name,
                           was |-> "absent",
                           regSame |-> r.units = units, ldSame |-> r.loaded = loaded]
                /\ UNCHANGED routes
                /\ ApiFrame

\* PluginHandler.RemovePlugin with a body that binds
RemoveRequest ==
    \E filename \in ApiNames, ioFail \in BOOLEAN :
        LET r == RemovePlugin(vpks, filename, ioFail)
        IN  /\ vpks' = r.dir
            /\ files' = DiskFiles(r.dir)
            /\ api' = [NoRequest EXCEPT !.op = "remove", !.filename = filename,
                                        !.status = RemoveStatus(r.result),
                                        !.result = r.result, !.was = vpks[filename]]
            /\ UNCHANGED <<loaded, dirs, units, routes>>
            /\ ApiFrame

\* InstallPlugin or RemovePlugin with a body ShouldBindJSON refuses: 400, nothing is
\* called.
BadRequest ==
    \E op \in {"install", "remove"} :
        /\ api' = [NoRequest EXCEPT !.op = op, !.status = 400, !.result = "bind_error"]
        /\ UNCHANGED <<vpks, files, loaded, dirs, units, routes>>
        /\ ApiFrame

\* Manager.RegisterAllRoutes: every plugin of Manager.plugins registers the group
\* /api/v1/<name>. gin panics when a path is registered twice; the calls taken are
\* those where no plugin has its group yet.
RegisterAllRoutes ==
    /\ units # EmptyMap
    /\ DOMAIN units \cap routes = {}
    /\ routes' = routes \cup DOMAIN units
    /\ api' = [NoRequest EXCEPT !.op = "register_routes"]
    /\ UNCHANGED <<vpks, files, loaded, dirs, units>>
    /\ ApiFrame

\* A request to /api/v1/<name>/x: the proxy handler of the plugin answers 200 when
\* the group is registered; if not, no route matches and gin answers 404.
PluginRequest ==
    \E name \in LoaderNames \ {""} :
        /\ api' = [NoRequest EXCEPT !.op = "plugin_request", !.name = name,
                                    !.status = IF name \in routes THEN 200 ELSE 404]
        /\ UNCHANGED <<vpks, files, loaded, dirs, units, routes>>
        /\ ApiFrame

ApiNext == InstallRequest \/ RemoveRequest \/ BadRequest \/ RegisterAllRoutes \/ PluginRequest

SpecApi == ApiInit /\ [][ApiNext]_vars

(***************************************************************************)
(* The rate-limit middleware. A request passes it in two steps, each a     *)
(* call of the limiter: Allow, and then GetRemaining for the header. The   *)
(* limiter locks its map for one call only, so other requests, a Reset and *)
(* the clock come in between. The limiter is the in-memory one; err is an  *)
(* error the limiter reports (a Redis command that failed).                *)
(***************************************************************************)
MiddlewareInit ==
    /\ now = 0
    /\ limit \in 0..MaxLimit
    /\ window \in 1..MaxWindow
    /\ requests = EmptyMap
    /\ zset = EmptyMap
    /\ expireAt = EmptyMap
    /\ last = NoCall
    /\ tab = Tables
    /\ vpks = EmptyDir
    /\ inst = NoInstall
    /\ hpc = [h \in Handlers |-> "idle"]
    /\ hloc = [h \in Handlers |-> NoLocals]
    /\ crashed = FALSE
    /\ registry = "module"
    /\ units = EmptyMap
    /\ initialized = FALSE
    /\ bound = EmptyMap
    /\ regOrder = <<>>
    /\ rlast = NoRegistryCall
    /\ loaded = EmptyMap
    /\ dirs = EmptyMap
    /\ files = EmptyMap
    /\ llast = NoLoaderCall
    /\ api = NoRequest
    /\ routes = {}
    /\ mw = [c \in Clients |-> MwIdle]
    /\ mu = Unlocked
    /\ mpc = [t \in Callers |-> CallerIdle]
    /\ parse = NoParse
    /\ srv = NoServer
    /\ inited = {}
    /\ disk = {}

MwFrame == UNCHANGED <<now, limit, window, zset, expireAt, last, instVars, concVars, regVars,
                       ldVars, apiVars, lockVars, auxVars>>

\* DefaultKeyFunc: the address of the client. The clients share one address.
DefaultKeyFunc(c) == "k1"

\* RateLimitMiddleware, up to the return of limiter.Allow: an error answers 500 and
\* aborts the chain.
MwAllow ==
    \E c \in Clients, err \in BOOLEAN :
        LET key == DefaultKeyFunc(c)
            m   == MemAllowN(requests, limit, key, 1, now)
        IN  /\ mw[c].pc \in {"idle", "done"}
            /\ requests' = IF err THEN requests ELSE m.reqs
            /\ mw' = [mw EXCEPT ![c] =
                         IF err
                         THEN [MwIdle EXCEPT !.pc = "done", !.key = key, !.err = TRUE,
                                             !.status = 500, !.aborted = TRUE]
                         ELSE [MwIdle EXCEPT !.pc = "checked", !.key = key, !.allowed = m.ok]]
            /\ MwFrame

\* RateLimitMiddleware, from the call of limiter.GetRemaining on: the header is set
\* from its answer; a refused request is answered 429 and the chain aborted, an
\* allowed one goes on to the next handler.
MwRespond ==
    \E c \in Clients :
        LET g == MemGetRemaining(requests, limit, mw[c].key, now)
        IN  /\ mw[c].pc = "checked"
            /\ requests' = g.reqs
            /\ mw' = [mw EXCEPT ![c] =
                         IF mw[c].allowed
                         THEN [@ EXCEPT !.pc = "done", !.header = g.remaining, !.status = 200,
                                        !.next = TRUE]
                         ELSE [@ EXCEPT !.pc = "done", !.header = g.remaining, !.status = 429,
                                        !.aborted = TRUE]]
            /\ MwFrame

\* MemoryRateLimiter.Reset, called by an operator while requests are under way
MwReset ==
    \E key \in Keys :
        /\ requests' = MemReset(requests, key)
        /\ UNCHANGED mw
        /\ MwFrame

MiddlewareNext == MwAllow \/ MwRespond \/ Tick \/ MwReset

SpecMiddleware == MiddlewareInit /\ [][MiddlewareNext]_vars

(***************************************************************************)
(* The Manager's lock. Every method takes m.mu on entry and releases it by *)
(* a deferred Unlock or RUnlock, so a call holds it through all its steps. *)
(***************************************************************************)
WriteOps == {"InstallPluginFromURL", "InstallAndLoadPluginFromURL", "LoadPluginFromFile",
             "UnregisterPlugin"}

ReadOps == {"GetPlugin", "ListPlugins", "IsInitialized"}

\* The steps a call makes between taking the lock and the deferred unlock
Steps(op) ==
    CASE op = "InstallPluginFromURL"        -> <<"download">>
      [] op = "InstallAndLoadPluginFromURL" -> <<"download", "extract", "register">>
      [] op = "LoadPluginFromFile"          -> <<"extract", "register">>
      [] op = "UnregisterPlugin"            -> <<"subprocess", "delete">>
      [] OTHER                              -> <<"read">>

\* The steps that wait on the network, the disk or a child process
BlockingIO == {"download", "extract", "subprocess"}

\* The steps that can fail and end the call early
CanFail == {"download", "extract"}

StepOf(t) == IF mpc[t].pc = "run" THEN Steps(mpc[t].op)[mpc[t].stage] ELSE ""

\* VKPLoader.LoadPlugin takes the loader's own lock around the extraction.
LoaderLockAt(t, step) == IF step = "extract" THEN t ELSE 0

\* sync.RWMutex.RLock returns: no writer holds the lock and none waits for it
CanRLock(t) ==
    /\ mu.writer = 0
    /\ \A w \in Callers \ {t} : ~(mpc[w].pc = "wait" /\ mpc[w].op \in WriteOps)

\* sync.RWMutex.Lock returns: nobody holds the lock
CanLock == mu.writer = 0 /\ mu.readers = {}

LocksInit ==
    /\ now = 0
    /\ limit = 0
    /\ window = 1
    /\ requests = EmptyMap
    /\ zset = EmptyMap
    /\ expireAt = EmptyMap
    /\ last = NoCall
    /\ tab = Tables
    /\ vpks = EmptyDir
    /\ inst = NoInstall
    /\ hpc = [h \in Handlers |-> "idle"]
    /\ hloc = [h \in Handlers |-> NoLocals]
    /\ crashed = FALSE
    /\ registry = "plugin"
    /\ units = EmptyMap
    /\ initialized = FALSE
    /\ bound = EmptyMap
    /\ regOrder = <<>>
    /\ rlast = NoRegistryCall
    /\ loaded = EmptyMap
    /\ dirs = EmptyMap
    /\ files = EmptyMap
    /\ llast = NoLoaderCall
    /\ api = NoRequest
    /\ routes = {}
    /\ mw = [c \in Clients |-> MwIdle]
    /\ mu = Unlocked
    /\ mpc = [t \in Callers |-> CallerIdle]
    /\ parse = NoParse
    /\ srv = NoServer
    /\ inited = {}
    /\ disk = {}

LockFrame == UNCHANGED <<instVars, limVars, concVars, regVars, ldVars, apiVars, mwVars, auxVars>>

\* A goroutine calls a method of the Manager and blocks in m.mu.Lock() or m.mu.RLock().
CallManager ==
    \E t \in Callers, op \in WriteOps \cup ReadOps :
        /\ mpc[t].pc = "idle"
        /\ mpc' = [mpc EXCEPT ![t] = [op |-> op, pc |-> "wait", stage |-> 0]]
        /\ UNCHANGED mu
        /\ LockFrame

\* m.mu.Lock() returns and the call starts its first step.
LockManager ==
    \E t \in Callers :
        /\ mpc[t].pc = "wait"
        /\ mpc[t].op \in WriteOps
        /\ CanLock
        /\ mu' = [mu EXCEPT !.writer = t, !.loader = LoaderLockAt(t, Steps(mpc[t].op)[1])]
        /\ mpc' = [mpc EXCEPT ![t].pc = "run", ![t].stage = 1]
        /\ LockFrame

\* m.mu.RLock() returns.
RLockManager ==
    \E t \in Callers :
        /\ mpc[t].pc = "wait"
        /\ mpc[t].op \in ReadOps
        /\ CanRLock(t)
        /\ mu' = [mu EXCEPT !.readers = @ \cup {t}]
        /\ mpc' = [mpc EXCEPT ![t].pc = "run", ![t].stage = 1]
        /\ LockFrame

\* A step of a call ends. After the last step, or after a step that failed, the call
\* returns and the deferred Unlock or RUnlock runs.
StepManager ==
    \E t \in Callers, failed \in BOOLEAN :
        LET steps   == Steps(mpc[t].op)
            returns == mpc[t].stage = Len(steps) \/ failed
        IN  /\ mpc[t].pc = "run"
            /\ failed => StepOf(t) \in CanFail
            /\ mpc' = [mpc EXCEPT ![t] = IF returns THEN CallerIdle
                                          ELSE [@ EXCEPT !.stage = @ + 1]]
            /\ mu' = IF returns
                     THEN [writer  |-> IF mu.writer = t THEN 0 ELSE mu.writer,
                           readers |-> mu.readers \ {t},
                           loader  |-> IF mu.loader = t THEN 0 ELSE mu.loader]
                     ELSE [mu EXCEPT !.loader = LoaderLockAt(t, steps[mpc[t].stage + 1])]
            /\ LockFrame

LocksNext == CallManager \/ LockManager \/ RLockManager \/ StepManager

SpecLocks == LocksInit /\ [][LocksNext]_vars

(***************************************************************************)
(* Properties of the supervisor (SpecSupervisor)                           *)
(***************************************************************************)
\* The plugin object the last call was made on
LastPlugin == loaded[llast.name].Plugin

\* C21: an Initialize that fails to start the child returns an error and leaves the
\* plugin without a process: Health reports "stopped", and stop (of a later
\* Shutdown or UnloadPlugin) signals nothing and returns no error.
C21_SpawnFailureLeavesNoProcess ==
    (llast.op = "Initialize" /\ llast.err # "") =>
        /\ llast.err = "start"
        /\ LastPlugin.proc = "none"
        /\ \A probeFails \in BOOLEAN : VKPHealth(LastPlugin, probeFails).status = "stopped"
        /\ \A killFails \in BOOLEAN :
              stop(LastPlugin, killFails) = [err |-> FALSE, obj |-> LastPlugin]

\* An Initialize has failed on a plugin whose earlier child was running.
C21_Witness ==
    /\ llast.op = "Initialize"
    /\ llast.err = "start"
    /\ LastPlugin.leaked
    /\ LastPlugin.proc = "none"

\* C22: Health reports "stopped" when the plugin has no process, "healthy" only
\* when the child is alive, and "unhealthy" when the plugin has a process that is
\* not alive (killed by Shutdown, or ended by itself).
C22_HealthTellsLiveness ==
    llast.op = "Health" =>
        /\ (LastPlugin.proc = "none" => llast.status = "stopped")
        /\ (llast.status = "healthy" => Alive(LastPlugin))
        /\ (LastPlugin.proc # "none" /\ ~Alive(LastPlugin) => llast.status = "unhealthy")

\* C23: a Shutdown or ShutdownAll leaves every extraction directory and every entry
\* of the loader's map in place, and when it returns no error no child it was
\* called on is alive; a step that removes an entry or an extraction directory is an
\* UnloadPlugin.
C23_ShutdownKeepsFiles ==
    [][/\ llast'.op \in {"Shutdown", "ShutdownAll"} =>
            /\ dirs' = dirs
            /\ DOMAIN loaded' = DOMAIN loaded
            /\ \A n \in DOMAIN loaded :
                  /\ loaded'[n].Path = loaded[n].Path
                  /\ loaded'[n].ExtractDir = loaded[n].ExtractDir
            /\ (llast'.op = "Shutdown" /\ llast'.err = "") =>
                  ~Alive(loaded'[llast'.name].Plugin)
            /\ (llast'.op = "ShutdownAll" /\ llast'.err = "") =>
                  \A n \in DOMAIN loaded' : ~Alive(loaded'[n].Plugin)
       /\ (\/ DOMAIN loaded \ DOMAIN loaded' # {}
           \/ DOMAIN dirs \ DOMAIN dirs' # {}) => llast'.op = "Unload"
      ]_vars

\* ShutdownAll has killed the child of an initialized plugin, whose extraction
\* directory and entry are still there.
C23_Witness ==
    /\ llast.op = "ShutdownAll"
    /\ llast.err = ""
    /\ \E n \in DOMAIN loaded :
          /\ loaded[n].Plugin.proc = "killed"
          /\ ~loaded[n].Plugin.leaked
          /\ loaded[n].ExtractDir \in DOMAIN dirs

(***************************************************************************)
(* UnloadPlugin (SpecSupervisor)                                           *)
(***************************************************************************)
\* The last call was an UnloadPlugin of a name the loader held / did not hold
UnloadedHeld == llast.op = "Unload" /\ llast.had

UnloadedMissing == llast.op = "Unload" /\ ~llast.had

\* The package of the entry that was unloaded loads again when the disk plays along.
LoadsAgain ==
    LET r == LoadPlugin(loaded, dirs, files, llast.old.Path, "ok")
    IN  r.err = "" /\ llast.name \in DOMAIN r.loaded

C37_NoUntrackedChild ==
    \A n \in DOMAIN loaded : ~loaded[n].Plugin.leaked

(***************************************************************************)
(* Failed loads (SpecLoader)                                               *)
(***************************************************************************)
\* C39: a LoadPlugin that returns an error leaves the loader as it was: no new
\* entry, no extraction directory left behind, and no change to the extraction
\* directory of a plugin that is loaded already.
C39_FailedLoadLeavesNoTrace ==
    (llast.op = "Load" /\ llast.err # "") => llast.same

(***************************************************************************)
(* Manager and loader (SpecApi)                                            *)
(***************************************************************************)
\* C38: the Manager's registry and the loader's map agree on the plugins loaded
\* from files: a name is held by the loader exactly when the Manager holds it, and
\* both hold the same instance.
C38_ManagerAndLoaderAgree ==
    /\ DOMAIN loaded = DOMAIN units
    /\ \A n \in DOMAIN units \cap DOMAIN loaded : units[n] = loaded[n].Plugin

(***************************************************************************)
(* IsInitialized (SpecLifecycle)                                           *)
(***************************************************************************)
\* C40: whenever IsInitialized() is true, every plugin in the registry has had a
\* successful Initialize since the last ShutdownAll.
C40_InitializedMeansAllInitialized ==
    initialized => \A n \in DOMAIN units : units[n] \in inited

(***************************************************************************)
(* Extraction confinement (SpecExtract)                                    *)
(***************************************************************************)
\* The path lies inside the extraction directory
Inside(path) ==
    /\ Len(path) > Len(ExtractDir)
    /\ SubSeq(path, 1, Len(ExtractDir)) = ExtractDir

\* C36: every file the extraction of an archive creates lies inside the package's
\* extraction directory, whatever the member names are.
C36_ExtractionIsConfined ==
    \A path \in disk : Inside(path)

(***************************************************************************)
(* Shutdown of the gateway (SpecGateway)                                   *)
(***************************************************************************)
\* The shutdown calls of the given name made so far
CallsOf(name) == {i \in 1..Len(srv.calls) : srv.calls[i].call = name}

\* C31: after the shutdown signal the gateway first stops accepting requests and
\* then invokes ShutdownAll on the registered units, modules and loaded plugins
\* alike, and every running plugin process is terminated before the gateway exits.
C31_ListenerClosedBeforeShutdownAll ==
    /\ \A i \in 1..Len(srv.calls) :
           srv.calls[i].call # "srv.Shutdown" => ~srv.calls[i].accepting
    /\ srv.phase = "exited" =>
           /\ CallsOf("moduleManager.ShutdownAll") # {}
           /\ loaded # EmptyMap => CallsOf("pluginManager.ShutdownAll") # {}
           /\ \A n \in DOMAIN loaded : ~Alive(loaded[n].Plugin)

\* The part of C31 that the gateway keeps: once it has exited, ShutdownAll of the
\* modules has been called, the listener is closed and no plugin process runs.
C31_ExitedAfterModuleShutdown ==
    srv.phase = "exited" =>
        /\ CallsOf("moduleManager.ShutdownAll") # {}
        /\ ~srv.accepting
        /\ \A n \in DOMAIN loaded : ~Alive(loaded[n].Plugin)

(***************************************************************************)
(* Rejected URLs (SpecInstaller)                                           *)
(***************************************************************************)
\* The part of the URL's path after its last slash
TrailingComponent(u) ==
    LET cs == Chars(u.path)
    IN  SubSeq(cs, LastIndexOf(cs, "/") + 1, Len(cs))

\* The URL is one the installer has to reject.
MustReject(u) ==
    \/ u.scheme \notin {"http", "https"}
    \/ u.host = ""
    \/ TrailingComponent(u) = <<>>
    \/ ~HasSuffix(TrailingComponent(u), Ext)

Rejected == inst.result \in {"invalid_url", "no_filename", "bad_filename"}

\* The install went on to the eviction and the download.
Proceeded == inst.result \in {"evict_failed", "download_failed", "ok"}

\* The rejection happens before any side effect.
C33_RejectedBeforeSideEffects ==
    (inst.op = "install" /\ MustReject(inst.url)) =>
        /\ Rejected
        /\ vpks = inst.pre
        /\ ~inst.fetched

\* C33: InstallFromURL rejects a URL with a scheme other than http and https, with an
\* empty host, or whose trailing path component is empty or does not end in .vkp,
\* before any side effect (no file removed, no HTTP request, no file written); a
\* .vkp filename that only fails the recommended pattern is not rejected and its
\* install proceeds.
C33_RejectsBadURLsOnly ==
    /\ C33_RejectedBeforeSideEffects
    /\ (/\ inst.op = "install"
        /\ ~MustReject(inst.url)
        /\ tab.validation[inst.file].warned) => Proceeded

(***************************************************************************)
(* Filename parsing (SpecParser)                                           *)
(***************************************************************************)
\* The filename has the form <service>_<platform>_<version>.vkp: three parts or more,
\* and a part after the first matches the version pattern.
WellFormed(parts) ==
    /\ Len(parts) >= 3
    /\ \E i \in 2..Len(parts) : MatchVersion(parts[i])

\* The right-most part of a well-formed filename that matches the version pattern
VersionStart(parts) ==
    CHOOSE i \in 2..Len(parts) :
        MatchVersion(parts[i]) /\ \A j \in (i + 1)..Len(parts) : ~MatchVersion(parts[j])

\* C32: for a filename <service>_<platform>_<version>.vkp the parser returns the
\* first part as the service, the right-most part that matches the version pattern
\* and all that follows it as the version (a suffix such as -rc stays in it), and the
\* parts between, joined by underscores, as the platform.
C32_ParsesServicePlatformVersion ==
    (parse.info.kind # "none" /\ WellFormed(parse.parts)) =>
        LET v == VersionStart(parse.parts)
        IN  /\ parse.info.kind = "ok"
            /\ parse.info.ServiceName = parse.parts[1]
            /\ parse.info.Platform = Join(SubSeq(parse.parts, 2, v - 1), "_")
            /\ parse.info.Version = Join(SubSeq(parse.parts, v, Len(parse.parts)), "_")

\* a_x_y_v1.0.1-rc.vkp has been parsed to (a, x_y, v1.0.1-rc).
C32_Witness ==
    /\ parse.parts = << <<"a">>, <<"x">>, <<"y">>, V101 \o <<"-", "r", "c">> >>
    /\ parse.info.kind = "ok"
    /\ parse.info.ServiceName = <<"a">>
    /\ parse.info.Platform = <<"x", "_", "y">>
    /\ parse.info.Version = V101 \o <<"-", "r", "c">>

\* C35: parsePluginInfo returns a descriptor or an error for every filename and never
\* crashes.
C35_ParseIsTotal == parse.info.kind \in {"none", "ok", "error"}

(***************************************************************************)
(* The plugin API (SpecApi)                                                *)
(***************************************************************************)
\* The last request was a remove / an install whose body was accepted
Removed == api.op = "remove" /\ api.status # 400

InstallAnswered == api.op = "install" /\ api.status # 400

\* C24: DELETE /api/v1/plugins/remove answers 200 when the file existed and was
\* removed, 404 when the file is missing (so also on the second removal of a file),
\* and 500 only on an I/O error.
C24_RemoveAnswers200_404_500 ==
    Removed =>
        /\ (api.was # "absent" /\ api.result = "ok") =>
               (api.status = 200 /\ vpks[api.filename] = "absent")
        /\ api.was = "absent" => api.status = 404
        /\ api.status = 500 => api.result = "io_error"

\* C25: an install with auto_load that answers 200 has downloaded the file, loaded
\* it and registered the plugin in Manager.plugins under its metadata name; an
\* install with auto_load that fails answers 500 and registers nothing; an install
\* without auto_load leaves Manager.plugins and the loader's map as they were.
C25_InstallLoadsAndRegisters ==
    InstallAnswered =>
        /\ (api.autoLoad /\ api.status = 200) =>
               /\ vpks[api.filename] = "complete"
               /\ api.name \in DOMAIN loaded
               /\ loaded[api.name].Path = tab.path[api.filename]
               /\ api.name \in DOMAIN units
               /\ units[api.name] = loaded[api.name].Plugin
               /\ units[api.name].metadata.Name = api.name
        /\ (api.autoLoad /\ api.result # "ok") => (api.status = 500 /\ api.regSame)
        /\ api.status = 200 => api.result = "ok"
        /\ ~api.autoLoad => (api.regSame /\ api.ldSame)

\* An install with auto_load has answered 200 and the plugin is registered.
C25_Witness ==
    /\ InstallAnswered
    /\ api.autoLoad
    /\ api.status = 200
    /\ api.name \in DOMAIN units

\* C26: right after a successful install with auto_load the plugin is listed by
\* ListPlugins and its route group /api/v1/<name> is registered, with no further
\* management call.
C26_InstalledPluginIsRouted ==
    (InstallAnswered /\ api.autoLoad /\ api.status = 200) =>
        /\ api.name \in DOMAIN units
        /\ api.name \in routes

(***************************************************************************)
(* The rate-limit middleware (SpecMiddleware)                              *)
(***************************************************************************)
\* C27: a request for which Allow returned false is answered 429, the handler chain
\* is aborted and the header X-RateLimit-Remaining is 0, whatever happens between the
\* Allow call and the writing of the header.
C27_RefusedAnswers429WithZeroRemaining ==
    \A c \in Clients :
        (mw[c].pc = "done" /\ ~mw[c].err /\ ~mw[c].allowed) =>
            /\ mw[c].status = 429
            /\ mw[c].aborted
            /\ ~mw[c].next
            /\ mw[c].header = 0

(***************************************************************************)
(* The Manager's lock (SpecLocks)                                          *)
(***************************************************************************)
\* C30: no lock of the Manager or of the loader is held across blocking I/O: while
\* a call waits on a download, an extraction or a child process, a reader (GetPlugin,
\* ListPlugins, IsInitialized) that asks for the lock gets it.
C30_NoLockAcrossIO ==
    \A t \in Callers :
        StepOf(t) \in BlockingIO =>
            /\ mu.writer # t
            /\ mu.loader # t
            /\ \A r \in Callers \ {t} :
                   (mpc[r].pc = "wait" /\ mpc[r].op \in ReadOps) => CanRLock(r)

(***************************************************************************)
(* Failures of InstallFromURL (SpecInstaller)                              *)
(***************************************************************************)
\* The last call was an InstallFromURL that reached the eviction step: the URL and
\* the filename were accepted and the new filename parses.
ReachedEviction ==
    /\ inst.op = "install"
    /\ inst.file \in Names
    /\ inst.result \notin {"invalid_url", "no_filename", "bad_filename"}
    /\ tab.info[inst.file].kind = "ok"

\* C28: an InstallFromURL whose eviction step meets an installed filename that does
\* not parse, or whose removal of an older version fails, returns an error and
\* writes nothing under the new filename.
C28_EvictionFailureAborts ==
    (/\ ReachedEviction
     /\ \/ \E f \in Installed(inst.pre) : tab.info[f].kind # "ok"
        \/ inst.result = "evict_failed")
        => /\ inst.result \notin {"ok", "download_failed"}
           /\ vpks[inst.file] = inst.pre[inst.file]

\* C29: an InstallFromURL that returns an error leaves every installed version of
\* the service of its filename as it was.
C29_FailedInstallKeepsVersion ==
    (ReachedEviction /\ inst.result \in {"evict_failed", "download_failed"}) =>
        \A f \in VersionsOf(inst.pre, tab.info[inst.file].ServiceName) :
            vpks[f] = inst.pre[f]

=============================================================================
